---- MODULE Spec2Model ----
(***************************************************************************)
(* A model of doped/plotting.py: the formation-energy line builder         *)
(* (_get_formation_energy_lines), the y-axis scale calculator              *)
(* (_get_ylim_from_y_range_vals), the legend formatter (_get_legends_txt)  *)
(* the entry point (formation_energy_plot / _TLD_plot) and the plot setup  *)
(* (_get_plot_setup).                                                      *)
(*                                                                         *)
(* Numbers.  One unit is 1 eV.  The caps, the breakpoints and the energies  *)
(* at them (the vertices of the polylines) are integers.  The edges of the *)
(* Fermi window, the energies taken at them, the range values, the 100     *)
(* in-gap samples of np.interp and the y-axis limits are exact rationals   *)
(* [n, d] in lowest terms; an integer among range values is written n/1.   *)
(* A rational stands for the double nearest to it.  The rounding of a      *)
(* value is not modelled (a limit of 2^-54 is written 0).  Where rounding  *)
(* decides what the code does (in _get_ylim_from_y_range_vals between      *)
(* raising, widening and keeping the limits, in _get_plot_setup the index  *)
(* of a colour), the step is taken in binary64 arithmetic.                 *)
(***************************************************************************)
EXTENDS Integers, Sequences, FiniteSets, TLC

VARIABLES fel, yl, lg, fep, gps
vars == <<fel, yl, lg, fep, gps>>

(***************************************************************************)
(* Arithmetic helpers                                                      *)
(***************************************************************************)
Abs(n) == IF n < 0 THEN -n ELSE n

RECURSIVE Gcd(_, _)
Gcd(a, b) == IF b = 0 THEN a ELSE Gcd(b, a % b)

\* Python max(...) / min(...) over a non-empty collection of integers
Max(S) == CHOOSE m \in S : \A n \in S : n <= m
Min(S) == CHOOSE m \in S : \A n \in S : m <= n

Range(s) == {s[i] : i \in DOMAIN s}

\* an exact rational n/d, d > 0, in lowest terms
Rat(n, d) ==
  LET g == Gcd(Abs(n), d)
  IN  [n |-> n \div g, d |-> d \div g]

RatOfInt(n) == [n |-> n, d |-> 1]

\* a < b, compared as floor and fractional part (keeps the products small)
RatLess(a, b) ==
  LET fa == a.n \div a.d
      fb == b.n \div b.d
      ra == a.n % a.d
      rb == b.n % b.d
  IN  \/ fa < fb
      \/ fa = fb /\ ra * b.d < rb * a.d

RatNeg(a) == a.n < 0

RatAdd(a, b) == Rat(a.n * b.d + b.n * a.d, a.d * b.d)
RatSub(a, b) == Rat(a.n * b.d - b.n * a.d, a.d * b.d)
\* a * n / d for integers n and d > 0
RatTimes(a, n, d) == Rat(a.n * n, a.d * d)

RatMax2(a, b) == IF RatLess(a, b) THEN b ELSE a

RECURSIVE RatMaxOf(_, _)
\* the greatest of s[1..hi]
RatMaxOf(s, hi) == IF hi = 1 THEN s[1] ELSE RatMax2(RatMaxOf(s, hi - 1), s[hi])

\* a sequence of integers as rationals
AsRats(vals) == [i \in DOMAIN vals |-> RatOfInt(vals[i])]

RatMin2(a, b) == IF RatLess(b, a) THEN b ELSE a

RECURSIVE RatMinOf(_, _)
\* the least of s[1..hi]
RatMinOf(s, hi) == IF hi = 1 THEN s[1] ELSE RatMin2(RatMinOf(s, hi - 1), s[hi])

RECURSIVE RatMinRange(_, _, _)
\* the least of s[lo..hi], found by halving
RatMinRange(s, lo, hi) ==
  IF lo = hi THEN s[lo]
  ELSE LET mid == (lo + hi) \div 2
       IN  RatMin2(RatMinRange(s, lo, mid), RatMinRange(s, mid + 1, hi))

\* Python min(first, *rest), in lowest terms
RatMinSeq(first, rest) ==
  LET m == IF rest = <<>> THEN first
           ELSE RatMin2(first, RatMinRange(rest, 1, Len(rest)))
  IN  Rat(m.n, m.d)

RECURSIVE DescendingSeq(_)
\* the keys in descending order: what the envelope would get were the
\* breakpoints not sorted ascending
DescendingSeq(S) ==
  IF S = {} THEN <<>>
  ELSE <<Max(S)>> \o DescendingSeq(S \ {Max(S)})

RECURSIVE SortedSeq(_)
\* Python sorted(...) of a finite set of integers
SortedSeq(S) ==
  IF S = {} THEN <<>>
  ELSE <<Min(S)>> \o SortedSeq(S \ {Min(S)})

RECURSIVE Flatten(_)
Flatten(ss) == IF ss = <<>> THEN <<>> ELSE Head(ss) \o Flatten(Tail(ss))

(***************************************************************************)
(* The defect phase diagram handed to the plotting code                    *)
(***************************************************************************)
\* bounds of the model
BandGap == 2
MaxBreaks == 2

\* program constants
lower_cap == -100
upper_cap == 100
NumSamples == 100

Charges == {-1, 0, 1}
SpeciesNames == <<"v_Cd", "Te_i">>

BreakPoints == -1 .. BandGap
TieSets == {T \in SUBSET Charges : Cardinality(T) >= 2}

\* energy of each charge state at Fermi level 0.  The energy of charge +1
\* puts the species below zero in the gap, or above it or across it; the
\* steps to charge 0 and from there to charge -1 are the Fermi levels at
\* which the two neighbours have equal energy.
Profiles ==
  { [q \in Charges |-> IF q = 1 THEN base
                       ELSE IF q = 0 THEN base + a ELSE base + a + b] :
      base \in {-6, 1}, a \in BreakPoints, b \in BreakPoints }

\* the formation energy of charge q at Fermi level x, without chemical
\* potentials
EnergyOfCharge(profile, q, x) == profile[q] + q * x

\* the charge states of lowest formation energy at Fermi level x
Lowest(profile, x) ==
  {q \in Charges :
     \A r \in Charges : EnergyOfCharge(profile, q, x) <= EnergyOfCharge(profile, r, x)}

\* the breakpoints: the Fermi levels where several charge states are lowest
Levels(profile) == {b \in BreakPoints : Lowest(profile, b) \in TieSets}

\* no transition level is left out: the charge lowest at a cap is the one the
\* nearest breakpoint ties, and two breakpoints that follow each other share
\* the charge that is lowest between them
NoLevelLeftOut(profile) ==
  LET B == Levels(profile)
  IN  /\ Lowest(profile, lower_cap) = {Max(Lowest(profile, Min(B)))}
      /\ Lowest(profile, upper_cap) = {Min(Lowest(profile, Max(B)))}
      /\ \A b1, b2 \in B :
           (b1 < b2 /\ ~\E b \in B : b1 < b /\ b < b2) =>
             Min(Lowest(profile, b1)) = Max(Lowest(profile, b2))

\* transition-level map of a species: breakpoint -> the set of the charge
\* states that are degenerate (of equal, and lowest, formation energy) at
\* that breakpoint, for every transition level of the species; none when a
\* transition level of the profile is at no whole breakpoint
TransitionLevelMaps(profile) ==
  IF Cardinality(Levels(profile)) \in 1 .. MaxBreaks /\ NoLevelLeftOut(profile)
  THEN {[b \in Levels(profile) |-> Lowest(profile, b)]}
  ELSE {}

\* the name the diagram gives a species: "<entry name>_<charge>@<suffix>",
\* kept as the three parts
DefName(name, q) == <<name, q, "@0">>

DefectEntry(name, q, profile) ==
  [name |-> name, charge_state |-> q, e0 |-> profile[q]]

\* entries of given charges, highest charge first
RECURSIVE EntriesOf(_, _, _)
EntriesOf(name, Q, profile) ==
  IF Q = {} THEN <<>>
  ELSE <<DefectEntry(name, Max(Q), profile)>>
         \o EntriesOf(name, Q \ {Max(Q)}, profile)

\* a species with at least one transition level: its stable entries are the
\* entries of the charges that occur in the map.  The diagram names a species
\* "<entry name>_<charge>@<suffix>" after its first stable entry.
SpeciesWithLevels(name) ==
  UNION { { [name |-> name,
             entries |-> EntriesOf(name, Charges, p),
             tl |-> tl,
             stable |-> EntriesOf(name, UNION {tl[b] : b \in DOMAIN tl}, p),
             def_name |-> DefName(name, Max(UNION {tl[b] : b \in DOMAIN tl}))] :
            tl \in TransitionLevelMaps(p) } :
          p \in Profiles }

\* a species for which the diagram holds no transition level and one stable
\* entry
SpeciesWithoutLevels(name) ==
  { [name |-> name,
     entries |-> EntriesOf(name, Charges, p),
     tl |-> <<>>,
     stable |-> <<DefectEntry(name, q, p)>>,
     def_name |-> DefName(name, q)] :
    p \in {p \in Profiles : TransitionLevelMaps(p) = {}}, q \in Charges }

SpeciesFamily(name) == SpeciesWithLevels(name) \cup SpeciesWithoutLevels(name)

Diagrams ==
  { [band_gap |-> BandGap, species |-> <<s1>>] :
      s1 \in SpeciesFamily(SpeciesNames[1]) }
  \cup
  { [band_gap |-> BandGap, species |-> <<s1, s2>>] :
      s1 \in SpeciesFamily(SpeciesNames[1]),
      s2 \in SpeciesFamily(SpeciesNames[2]) }

\* defect_phase_diagram.entries
Entries(dpd) == Flatten([i \in DOMAIN dpd.species |-> dpd.species[i].entries])

\* lines 465-466: the window taken when xlim is None,
\* (-0.3, defect_phase_diagram.band_gap + 0.3)
DefaultXlim(band_gap) == <<Rat(-3, 10), Rat(10 * band_gap + 3, 10)>>

\* a window given by the caller, in whole eV
Xlim(lo, hi) == <<RatOfInt(lo), RatOfInt(hi)>>

\* the Fermi windows: the default one around the gap and a narrower one
Windows == { DefaultXlim(BandGap), Xlim(1, BandGap) }

\* Python values handed to the entry point: None, a number, and a dict as
\* its items <<key, value>> in insertion order.  Element symbols and the keys
\* "facets" and "elemental_refs" are strings, facet names are sequences of
\* characters (a facet selector given as a string is iterated by character).
PyNone == [kind |-> "None"]
Num(n) == [kind |-> "num", num |-> n]
Dict(items) == [kind |-> "dict", items |-> items]

\* bool(v) of None, a number or a dict
Truthy(v) ==
  IF v.kind = "dict" THEN v.items # <<>>
  ELSE IF v.kind = "num" THEN v.num # 0
  ELSE FALSE

\* key in d, d[key] (of a key that is there), d.keys(), d.values()
HasKey(d, key) == \E i \in DOMAIN d.items : d.items[i][1] = key
ValueOf(d, key) == d.items[CHOOSE i \in DOMAIN d.items : d.items[i][1] = key][2]
KeysOf(d) == [i \in DOMAIN d.items |-> d.items[i][1]]
ValuesOf(d) == [i \in DOMAIN d.items |-> d.items[i][2]]

RECURSIVE SumOfNumbers(_)
SumOfNumbers(values) ==
  IF values = <<>> THEN 0
  ELSE (IF Head(values).kind = "num" THEN Head(values).num ELSE 0)
         + SumOfNumbers(Tail(values))

\* chemical potentials: None, or {element: chemical potential}.  The term
\* they add to a formation energy is the sum of the chemical potentials
\* given (every defect taken to exchange one atom of each element); None and
\* {} add nothing.
NoChempots == PyNone
ChempotTerm(chempots) ==
  IF chempots.kind = "dict" THEN SumOfNumbers(ValuesOf(chempots)) ELSE 0

\* defect_phase_diagram._formation_energy: affine in the Fermi level
_formation_energy(defect_entry, chemical_potentials, fermi_level) ==
  defect_entry.e0 + ChempotTerm(chemical_potentials)
    + defect_entry.charge_state * fermi_level

\* the same at a rational Fermi level (an edge of the window)
FormationEnergyAt(defect_entry, chemical_potentials, fermi_level) ==
  Rat((defect_entry.e0 + ChempotTerm(chemical_potentials)) * fermi_level.d
        + defect_entry.charge_state * fermi_level.n,
      fermi_level.d)

(***************************************************************************)
(* _get_formation_energy_lines                                             *)
(***************************************************************************)
\* f"{defect_entry.name}_{defect_entry.charge_state}"
EntryKey(defect_entry) == <<defect_entry.name, defect_entry.charge_state>>

\* def_name.rsplit("@", 1)[0]
RsplitAt(def_name) == SubSeq(def_name, 1, 2)

\* d[key] = value on a dict modelled as a function
DictSet(d, key, value) ==
  [k \in (DOMAIN d) \cup {key} |-> IF k = key THEN value ELSE d[k]]

\* lines 334-341: the two-point line of one entry
AllStatesLine(dpd, dft_chempots, defect_entry) ==
  << <<lower_cap, upper_cap>>,
     <<_formation_energy(defect_entry, dft_chempots, lower_cap),
       _formation_energy(defect_entry, dft_chempots, upper_cap)>> >>

\* lines 342-347, run once per x_extrem: the energies at the window edges
WindowEdgeVals(defect_entry, dft_chempots, xlim) ==
  <<FormationEnergyAt(defect_entry, dft_chempots, xlim[1]),
    FormationEnergyAt(defect_entry, dft_chempots, xlim[2])>>

RECURSIVE AllLinesLoop(_, _, _, _, _)
\* lines 332-347: the loop over defect_phase_diagram.entries
AllLinesLoop(dpd, dft_chempots, xlim, todo, acc) ==
  IF todo = <<>> THEN acc
  ELSE
    LET defect_entry == Head(todo)
        edge == WindowEdgeVals(defect_entry, dft_chempots, xlim)
    IN  AllLinesLoop(dpd, dft_chempots, xlim, Tail(todo),
          [all_lines_xy |->
             DictSet(acc.all_lines_xy, EntryKey(defect_entry),
                     AllStatesLine(dpd, dft_chempots, defect_entry)),
           all_entries_y_range_vals |->
             acc.all_entries_y_range_vals \o edge \o edge])

\* the inner loops over stable_entries[def_name] (lines 356-357, 371-372,
\* 382-383): every entry of the charge assigns, so the last one remains;
\* <<>> when no entry of that charge is there (nothing is assigned)
LastMatch(stable, charge) ==
  LET m == SelectSeq(stable, LAMBDA e : e.charge_state = charge)
  IN  IF m = <<>> THEN <<>> ELSE <<m[Len(m)]>>

\* a local variable after an assignment that runs only when an entry matched
Assigned(old, match, dft_chempots, fermi_level) ==
  IF match = <<>> THEN old
  ELSE <<_formation_energy(match[1], dft_chempots, fermi_level)>>

\* the same for fe_left and fe_right, taken at an edge of the window
AssignedAt(old, match, dft_chempots, fermi_level) ==
  IF match = <<>> THEN old
  ELSE <<FormationEnergyAt(match[1], dft_chempots, fermi_level)>>

\* line 355 and line 370: the charge picked from a tie set
\* the other end of the first tie set
FirstMinCharge(def_tl, org_x) == Min(def_tl[org_x[1]])
first_charge(def_tl, org_x) == Max(def_tl[org_x[1]])
charge(def_tl, fl) == Max(def_tl[fl])
\* line 381
last_charge(def_tl, org_x) == Min(def_tl[org_x[Len(org_x)]])

RECURSIVE TransitionLoop(_, _, _, _)
\* lines 369-378: one point per breakpoint; acc = [form_en, x, y, range]
TransitionLoop(sp, dft_chempots, todo, acc) ==
  IF todo = <<>> THEN acc
  ELSE
    LET fl == Head(todo)
        form_en == Assigned(acc.form_en, LastMatch(sp.stable, charge(sp.tl, fl)),
                            dft_chempots, fl)
    IN  TransitionLoop(sp, dft_chempots, Tail(todo),
          [form_en |-> form_en,
           x |-> Append(acc.x, fl),
           y |-> acc.y \o form_en,
           range |-> acc.range \o AsRats(form_en)])

\* np.interp(x, xp, fp) at x = x99 / 99, xp increasing; the value is an
\* unreduced fraction
Interp(x99, xp, fp) ==
  IF x99 <= 99 * xp[1] THEN RatOfInt(fp[1])
  ELSE IF x99 >= 99 * xp[Len(xp)] THEN RatOfInt(fp[Len(fp)])
  ELSE
    LET j == CHOOSE j \in 1 .. Len(xp) - 1 :
               99 * xp[j] <= x99 /\ x99 < 99 * xp[j + 1]
        d == 99 * (xp[j + 1] - xp[j])
    IN  [n |-> fp[j] * d + (fp[j + 1] - fp[j]) * (x99 - 99 * xp[j]), d |-> d]

\* lines 429-431: np.linspace(x_range[0], x_range[1], 100), then np.interp;
\* sample i lies at x_range[0] + i * (x_range[1] - x_range[0]) / 99
_get_in_gap_yvals(x_coords, y_coords, x_range) ==
  [i \in 1 .. NumSamples |->
     Interp(99 * x_range[1] + (i - 1) * (x_range[2] - x_range[1]),
            x_coords, y_coords)]

\* the frame of a call that has not been made
Idle == [pc |-> "idle"]

\* lines 324-330: the locals at the start of the call
LinesFrame(dpd, dft_chempots, xlim) ==
  [pc |-> "all_lines",
   dpd |-> dpd, dft_chempots |-> dft_chempots, xlim |-> xlim,
   xy |-> <<>>, all_lines_xy |-> <<>>,
   y_range_vals |-> <<>>, all_entries_y_range_vals |-> <<>>,
   ymin |-> RatOfInt(0),
   next |-> 1,
   form_en |-> <<>>, fe_left |-> <<>>, fe_right |-> <<>>,
   warned |-> <<>>,
   raised |-> "none"]

Raise(f, exc) == [f EXCEPT !.pc = "raised", !.raised = exc]

\* lines 352-392: the envelope of a species with transition levels.
\* A local read before any assignment raises UnboundLocalError.
EnvelopeWithLevels(f, sp) ==
  LET org_x == SortedSeq(DOMAIN sp.tl)
      left == LastMatch(sp.stable, first_charge(sp.tl, org_x))
      form_en1 == Assigned(f.form_en, left, f.dft_chempots, lower_cap)
      fe_left == AssignedAt(f.fe_left, left, f.dft_chempots, f.xlim[1])
      mid == TransitionLoop(sp, f.dft_chempots, org_x,
               [form_en |-> form_en1, x |-> <<lower_cap>>, y |-> form_en1,
                range |-> f.y_range_vals \o fe_left])
      right == LastMatch(sp.stable, last_charge(sp.tl, org_x))
      form_en3 == Assigned(mid.form_en, right, f.dft_chempots, upper_cap)
      fe_right == AssignedAt(f.fe_right, right, f.dft_chempots, f.xlim[2])
  IN  IF form_en1 = <<>> \/ fe_left = <<>> \/ fe_right = <<>>
      THEN Raise(f, "UnboundLocalError")
      ELSE [f EXCEPT
              !.xy = DictSet(f.xy, sp.def_name,
                       <<Append(mid.x, upper_cap), mid.y \o form_en3>>),
              !.y_range_vals = mid.range \o fe_right,
              !.form_en = form_en3,
              !.fe_left = fe_left,
              !.fe_right = fe_right]

\* the line of the first entry of the species, stable or not
LineOfFirstEntry(f, sp) ==
  [f EXCEPT
     !.xy = DictSet(f.xy, sp.def_name, f.all_lines_xy[EntryKey(sp.entries[1])]),
     !.y_range_vals =
        f.y_range_vals \o WindowEdgeVals(sp.entries[1], f.dft_chempots, f.xlim)]

\* lines 394-403: no transition level; the line of the entry the species is
\* named after is taken from all_lines_xy
EnvelopeWithoutLevels(f, sp) ==
  IF RsplitAt(sp.def_name) \notin DOMAIN f.all_lines_xy
  THEN Raise(f, "KeyError")
  ELSE IF sp.stable = <<>> THEN Raise(f, "IndexError")
  ELSE [f EXCEPT
          !.xy = DictSet(f.xy, sp.def_name, f.all_lines_xy[RsplitAt(sp.def_name)]),
          !.y_range_vals =
             f.y_range_vals \o WindowEdgeVals(sp.stable[1], f.dft_chempots, f.xlim)]

\* some sample below zero, instead of all of them
AnyBelowZero(yvals) == \E i \in DOMAIN yvals : RatNeg(yvals[i])

\* line 407: all(y < 0 for y in yvals)
AllBelowZero(yvals) == \A i \in DOMAIN yvals : RatNeg(yvals[i])

\* lines 405-413: the check of the finished envelope against the gap
BelowZeroCheck(f, sp) ==
  LET yvals == _get_in_gap_yvals(f.xy[sp.def_name][1], f.xy[sp.def_name][2],
                                 <<0, f.dpd.band_gap>>)
  IN  IF AllBelowZero(yvals)
      THEN [f EXCEPT !.warned = Append(f.warned, RsplitAt(sp.def_name)),
                     !.ymin = RatMinSeq(f.ymin, yvals)]
      ELSE f

\* lines 349-413: one pass of the loop over transition_level_map.items()
EnvelopeIteration(f, sp) ==
  LET g == IF DOMAIN sp.tl # {} THEN EnvelopeWithLevels(f, sp)
           ELSE EnvelopeWithoutLevels(f, sp)
  IN  IF g.raised # "none" THEN g
      ELSE [BelowZeroCheck(g, sp) EXCEPT !.next = f.next + 1]

\* line 415: the returned tuple
LinesResult(f) ==
  [xy |-> f.xy, y_range_vals |-> f.y_range_vals,
   all_lines_xy |-> f.all_lines_xy,
   all_entries_y_range_vals |-> f.all_entries_y_range_vals,
   ymin |-> f.ymin]

(***************************************************************************)
(* The line builder as a state machine                                     *)
(***************************************************************************)
\* lines 332-347
BuildAllLines ==
  /\ fel.pc = "all_lines"
  /\ LET acc == AllLinesLoop(fel.dpd, fel.dft_chempots, fel.xlim, Entries(fel.dpd),
                  [all_lines_xy |-> <<>>, all_entries_y_range_vals |-> <<>>])
     IN  fel' = [fel EXCEPT !.pc = "envelopes",
                            !.all_lines_xy = acc.all_lines_xy,
                            !.all_entries_y_range_vals = acc.all_entries_y_range_vals]
  /\ UNCHANGED <<yl, lg, fep, gps>>

\* lines 349-413, once per species
BuildEnvelope ==
  /\ fel.pc = "envelopes"
  /\ fel.next <= Len(fel.dpd.species)
  /\ fel' = EnvelopeIteration(fel, fel.dpd.species[fel.next])
  /\ UNCHANGED <<yl, lg, fep, gps>>

\* line 415
ReturnLines ==
  /\ fel.pc = "envelopes"
  /\ fel.next > Len(fel.dpd.species)
  /\ fel' = [fel EXCEPT !.pc = "returned"]
  /\ UNCHANGED <<yl, lg, fep, gps>>

InitLines ==
  /\ fel \in {LinesFrame(dpd, NoChempots, xlim) : dpd \in Diagrams, xlim \in Windows}
  /\ yl = Idle
  /\ lg = Idle
  /\ fep = Idle
  /\ gps = Idle

NextLines == BuildAllLines \/ BuildEnvelope \/ ReturnLines

SpecLines == InitLines /\ [][NextLines]_vars

(***************************************************************************)
(* Properties of the line builder                                          *)
(***************************************************************************)
LinesRunning == fel.pc \in {"all_lines", "envelopes", "returned"}

\* the species whose envelope has been built
Built == IF LinesRunning
         THEN {sp \in Range(fel.dpd.species) : sp.def_name \in DOMAIN fel.xy}
         ELSE {}

BuiltWithLevels == {sp \in Built : DOMAIN sp.tl # {}}
BuiltWithoutLevels == {sp \in Built : DOMAIN sp.tl = {}}

AllReturned ==
  /\ fel.pc = "returned"
  /\ \A i \in DOMAIN fel.dpd.species : fel.dpd.species[i] \in Built

\* the stable entry of a species that has the given charge
EntryOfCharge(sp, q) == CHOOSE e \in Range(sp.stable) : e.charge_state = q

\* C1: a species with k breakpoints has an envelope of k+2 points, x and y
\* of the same length: the lower cap, the breakpoints in ascending order, the
\* upper cap; its x-coordinates are strictly increasing.
C1_EnvelopePoints ==
  /\ fel.pc = "returned" => AllReturned
  /\ \A sp \in BuiltWithLevels :
       LET k == Cardinality(DOMAIN sp.tl)
           x == fel.xy[sp.def_name][1]
           y == fel.xy[sp.def_name][2]
       IN  /\ Len(x) = k + 2
           /\ Len(y) = k + 2
           /\ x[1] = lower_cap
           /\ x[k + 2] = upper_cap
           /\ {x[j] : j \in 2 .. k + 1} = DOMAIN sp.tl
           /\ \A j \in 1 .. k + 1 : x[j] < x[j + 1]

C1_Witness ==
  /\ AllReturned
  /\ \E sp \in BuiltWithLevels : Cardinality(DOMAIN sp.tl) = MaxBreaks
  /\ \E sp \in BuiltWithLevels : Cardinality(DOMAIN sp.tl) = 1

\* C2: a species without transition levels has as envelope the two-point
\* all-states line (lower cap, upper cap) of stable_entries[species][0].
C2_EnvelopeIsAllStatesLine ==
  \A sp \in BuiltWithoutLevels :
    /\ fel.xy[sp.def_name] = fel.all_lines_xy[EntryKey(sp.stable[1])]
    /\ fel.xy[sp.def_name] =
         << <<lower_cap, upper_cap>>,
            <<_formation_energy(sp.stable[1], fel.dft_chempots, lower_cap),
              _formation_energy(sp.stable[1], fel.dft_chempots, upper_cap)>> >>

C2_Witness ==
  /\ AllReturned
  /\ \E sp \in BuiltWithoutLevels : sp.stable[1] # sp.entries[1]
  /\ \E sp \in BuiltWithoutLevels : sp.stable[1] = sp.entries[1]

\* C3: the y-values follow the tie-break rule: first point = energy at
\* lower_cap of the entry with the maximum charge tied at the first breakpoint;
\* at each breakpoint = energy there of the entry with the maximum charge of
\* its tie set; last point = energy at upper_cap of the entry with the minimum
\* charge tied at the last breakpoint.
C3_TieBreak ==
  \A sp \in BuiltWithLevels :
    LET k == Cardinality(DOMAIN sp.tl)
        x == fel.xy[sp.def_name][1]
        y == fel.xy[sp.def_name][2]
        first == Min(DOMAIN sp.tl)
        last == Max(DOMAIN sp.tl)
    IN  /\ y[1] = _formation_energy(EntryOfCharge(sp, Max(sp.tl[first])),
                                    fel.dft_chempots, lower_cap)
        /\ \A j \in 2 .. k + 1 :
             y[j] = _formation_energy(EntryOfCharge(sp, Max(sp.tl[x[j]])),
                                      fel.dft_chempots, x[j])
        /\ y[k + 2] = _formation_energy(EntryOfCharge(sp, Min(sp.tl[last])),
                                        fel.dft_chempots, upper_cap)

\* a species with the most breakpoints and a species with three charge
\* states tied at its breakpoint, whose highest and lowest differ in energy at
\* the caps
C3_Witness ==
  /\ AllReturned
  /\ \E sp \in BuiltWithLevels : Cardinality(DOMAIN sp.tl) = MaxBreaks
  /\ \E sp \in BuiltWithLevels :
       \E b \in DOMAIN sp.tl :
         /\ Cardinality(sp.tl[b]) = 3
         /\ _formation_energy(EntryOfCharge(sp, Max(sp.tl[b])), fel.dft_chempots,
                              lower_cap)
              # _formation_energy(EntryOfCharge(sp, Min(sp.tl[b])), fel.dft_chempots,
                                  lower_cap)

\* the 100 samples of a built envelope over [0, band_gap]
Samples(sp) ==
  _get_in_gap_yvals(fel.xy[sp.def_name][1], fel.xy[sp.def_name][2],
                    <<0, fel.dpd.band_gap>>)

EverySampleNegative(sp) ==
  LET ys == Samples(sp)
  IN  \A i \in 1 .. NumSamples : ys[i].n < 0

RatSame(a, b) == ~RatLess(a, b) /\ ~RatLess(b, a)

\* the polyline section 4.1 prescribes for a species
PrescribedEnvelope(sp) ==
  IF DOMAIN sp.tl = {}
  THEN << <<lower_cap, upper_cap>>,
          <<_formation_energy(sp.stable[1], fel.dft_chempots, lower_cap),
            _formation_energy(sp.stable[1], fel.dft_chempots, upper_cap)>> >>
  ELSE LET org == SortedSeq(DOMAIN sp.tl)
           k == Len(org)
       IN  << <<lower_cap>> \o org \o <<upper_cap>>,
              [j \in 1 .. k + 2 |->
                 IF j = 1
                 THEN _formation_energy(EntryOfCharge(sp, Max(sp.tl[org[1]])),
                                        fel.dft_chempots, lower_cap)
                 ELSE IF j = k + 2
                 THEN _formation_energy(EntryOfCharge(sp, Min(sp.tl[org[k]])),
                                        fel.dft_chempots, upper_cap)
                 ELSE _formation_energy(EntryOfCharge(sp, Max(sp.tl[org[j - 1]])),
                                        fel.dft_chempots, org[j - 1])] >>

\* C10: at the return, a species has been warned about exactly when all 100
\* samples of its envelope over [0, band_gap] are negative; the floor ymin is
\* the minimum of
\* 0 and the samples of the warned species (0 when none is warned); the
\* polylines are what they are without the warning.
C10_BelowZeroWarning ==
  fel.pc = "returned" =>
    LET warned == {sp \in Built : EverySampleNegative(sp)}
        low == UNION {Range(Samples(sp)) : sp \in warned} \cup {RatOfInt(0)}
    IN  /\ Range(fel.warned) = {RsplitAt(sp.def_name) : sp \in warned}
        /\ Len(fel.warned) = Cardinality(warned)
        /\ \E v \in low : RatSame(v, fel.ymin)
        /\ \A v \in low : ~RatLess(v, fel.ymin)
        /\ warned = {} => fel.ymin = RatOfInt(0)
        /\ \A sp \in Built : fel.xy[sp.def_name] = PrescribedEnvelope(sp)
        /\ \A e \in Range(Entries(fel.dpd)) :
             EntryKey(e) \in DOMAIN fel.all_lines_xy =>
               fel.all_lines_xy[EntryKey(e)] =
                 << <<lower_cap, upper_cap>>,
                    <<_formation_energy(e, fel.dft_chempots, lower_cap),
                      _formation_energy(e, fel.dft_chempots, upper_cap)>> >>

\* two species built, one warned and one with samples on both sides of zero,
\* and the floor is below zero
C10_Witness ==
  /\ AllReturned
  /\ \E sp \in Built : EverySampleNegative(sp)
  /\ \E sp \in Built :
       /\ ~EverySampleNegative(sp)
       /\ AnyBelowZero(Samples(sp))
  /\ RatNeg(fel.ymin)

\* the formation energies an entry takes at the Fermi levels of the window:
\* the energy is affine, so these are the values between those at the edges
InWindowEnergy(e, v) ==
  LET a == FormationEnergyAt(e, fel.dft_chempots, fel.xlim[1])
      b == FormationEnergyAt(e, fel.dft_chempots, fel.xlim[2])
  IN  ~RatLess(v, RatMin2(a, b)) /\ ~RatLess(RatMax2(a, b), v)

\* the energies of the entries at the two edges of the window
EdgeEnergies ==
  { FormationEnergyAt(e, fel.dft_chempots, x) :
      e \in Range(Entries(fel.dpd)), x \in {fel.xlim[1], fel.xlim[2]} }

\* C13: every value in y_range_vals and in all_entries_y_range_vals is a
\* formation energy of an entry at a Fermi level inside the window
\* [xlim[0], xlim[1]], never one taken at a cap or at a breakpoint outside
\* the window; the values of all_entries_y_range_vals are exactly the
\* energies of every entry at the two window edges.
C13_RangeValsInWindow ==
  fel.pc = "returned" =>
    /\ \A i \in DOMAIN fel.y_range_vals :
         \E sp \in Built : \E e \in Range(sp.stable) :
           InWindowEnergy(e, fel.y_range_vals[i])
    /\ \A i \in DOMAIN fel.all_entries_y_range_vals :
         \E e \in Range(Entries(fel.dpd)) :
           InWindowEnergy(e, fel.all_entries_y_range_vals[i])
    /\ Range(fel.all_entries_y_range_vals) = EdgeEnergies

\* what holds of C13: all_entries_y_range_vals is as claimed; y_range_vals
\* holds the energies of stable entries at the window edges and at every
\* breakpoint of their species, inside the window or not
C13_AsCoded ==
  fel.pc = "returned" =>
    /\ Range(fel.all_entries_y_range_vals) = EdgeEnergies
    /\ \A i \in DOMAIN fel.y_range_vals :
         \E sp \in Built : \E e \in Range(sp.stable) :
           \E x \in {fel.xlim[1], fel.xlim[2]} \cup {RatOfInt(b) : b \in DOMAIN sp.tl} :
             fel.y_range_vals[i] = FormationEnergyAt(e, fel.dft_chempots, x)
    /\ \A sp \in BuiltWithLevels : \A b \in DOMAIN sp.tl :
         \E i \in DOMAIN fel.y_range_vals :
           fel.y_range_vals[i] =
             FormationEnergyAt(EntryOfCharge(sp, Max(sp.tl[b])),
                               fel.dft_chempots, RatOfInt(b))

(***************************************************************************)
(* The line builder on diagrams whose stable entries lack a tied charge    *)
(***************************************************************************)
\* the charges a transition-level map names
TiedCharges(tl) == UNION {tl[b] : b \in DOMAIN tl}

\* species with transition levels whose stable entries leave out at least
\* one of the charges the map names (the input contract does not exclude it)
SpeciesMissingCharges(name, p) ==
  UNION { { [name |-> name,
             entries |-> EntriesOf(name, Charges, p),
             tl |-> tl,
             stable |-> EntriesOf(name, Q, p),
             def_name |-> DefName(name, Max(TiedCharges(tl)))] :
            Q \in (SUBSET TiedCharges(tl)) \ {TiedCharges(tl)} } :
          tl \in TransitionLevelMaps(p) }

\* such a species alone, or after a species that has all its entries
DiagramsMissingCharges ==
  UNION { { [band_gap |-> BandGap, species |-> <<s1>>] :
              s1 \in SpeciesMissingCharges(SpeciesNames[1], p) }
          \cup
          { [band_gap |-> BandGap, species |-> <<s1, s2>>] :
              s1 \in {sp \in SpeciesWithLevels(SpeciesNames[1]) :
                        sp.entries = EntriesOf(SpeciesNames[1], Charges, p)},
              s2 \in SpeciesMissingCharges(SpeciesNames[2], p) } :
          p \in Profiles }

InitLinesMissing ==
  /\ fel \in {LinesFrame(dpd, NoChempots, Xlim(-1, BandGap + 1)) :
                dpd \in DiagramsMissingCharges}
  /\ yl = Idle
  /\ lg = Idle
  /\ fep = Idle
  /\ gps = Idle

SpecLinesMissing == InitLinesMissing /\ [][NextLines]_vars

\* the species whose pass of the loop is over, by position
Processed ==
  IF fel.pc \in {"envelopes", "returned"} THEN 1 .. (fel.next - 1) ELSE {}

\* the number of values a species adds to y_range_vals
RECURSIVE RangeValsBefore(_)
RangeValsBefore(i) ==
  IF i = 1 THEN 0
  ELSE RangeValsBefore(i - 1)
         + (IF DOMAIN fel.dpd.species[i - 1].tl = {} THEN 2
            ELSE Cardinality(DOMAIN fel.dpd.species[i - 1].tl) + 2)

\* value v is the energy at Fermi level x of a stable entry of sp with charge q
FromStableEntry(sp, q, x, v) ==
  \E e \in Range(sp.stable) :
    /\ e.charge_state = q
    /\ v = _formation_energy(e, fel.dft_chempots, x)

\* the same for a range value v and a rational Fermi level x
RangeValFromStableEntry(sp, q, x, v) ==
  \E e \in Range(sp.stable) :
    /\ e.charge_state = q
    /\ v = FormationEnergyAt(e, fel.dft_chempots, x)

\* C14: for a species with transition levels, every y-value of its envelope
\* and every value it adds to y_range_vals (form_en, fe_left, fe_right) is
\* computed for that point from an entry of stable_entries[species] whose
\* charge is the charge selected for the point; when there is no such
\* entry, no value of an earlier point or an earlier species stands in.
C14_ValuesFromSelectedEntry ==
  \A i \in Processed :
    LET sp == fel.dpd.species[i]
        k == Cardinality(DOMAIN sp.tl)
        org == SortedSeq(DOMAIN sp.tl)
        y == fel.xy[sp.def_name][2]
        off == RangeValsBefore(i)
        r == fel.y_range_vals
    IN  DOMAIN sp.tl # {} =>
          /\ FromStableEntry(sp, Max(sp.tl[org[1]]), lower_cap, y[1])
          /\ RangeValFromStableEntry(sp, Max(sp.tl[org[1]]), fel.xlim[1], r[off + 1])
          /\ \A j \in 1 .. k :
               /\ FromStableEntry(sp, Max(sp.tl[org[j]]), org[j], y[j + 1])
               /\ RangeValFromStableEntry(sp, Max(sp.tl[org[j]]), RatOfInt(org[j]),
                                          r[off + 1 + j])
          /\ FromStableEntry(sp, Min(sp.tl[org[k]]), upper_cap, y[k + 2])
          /\ RangeValFromStableEntry(sp, Min(sp.tl[org[k]]), fel.xlim[2], r[off + k + 2])

(***************************************************************************)
(* _get_ylim_from_y_range_vals                                             *)
(***************************************************************************)
\* bounds of the inputs
MaxRangeVals == 3
MaxY == 2

\* the range values tried: small energies; -11, which with a maximum of -1
\* puts the base ymax at exactly zero; -0.3 and -3.3, which do the same
\* for the exact values while the doubles leave 2^-54
RangeValues ==
  {RatOfInt(v) : v \in (-MaxY .. MaxY) \cup {-11}}
    \cup {Rat(-3, 10), Rat(-33, 10)}

RangeValLists == UNION {[1 .. n -> RangeValues] : n \in 0 .. MaxRangeVals}

\* the floors handed over by the caller (the ymin of the line builder)
Floors == {RatOfInt(0), Rat(-7, 2)}

\* Python max(y_range_vals) / min(y_range_vals) of a non-empty sequence
PyMax(vals) == RatMaxOf(vals, Len(vals))
PyMin(vals) == RatMinOf(vals, Len(vals))

\* IEEE 754 binary64, the arithmetic of the Python float and of numpy.float64.
\* Body(v), with v computed once
With(v, Body(_)) == CHOOSE r \in {Body(x) : x \in {v}} : TRUE

\* A natural number of any size is the sequence of its digits in base
\* LimbBase = 2^LimbBits, the least significant first and the last one not
\* zero; zero is <<>>.
LimbBits == 15
LimbBase == 2 ^ LimbBits

RECURSIVE NatOfInt(_)
NatOfInt(n) ==
  IF n = 0 THEN <<>> ELSE <<n % LimbBase>> \o NatOfInt(n \div LimbBase)

LimbAt(a, i) == IF i <= Len(a) THEN a[i] ELSE 0

\* a without zeros at its end
Trim(a0) ==
  With(a0, LAMBDA a :
    SubSeq(a, 1, Max({0} \cup {i \in 1 .. Len(a) : a[i] # 0})))

\* the carry into digit i of a + b
RECURSIVE Carry(_, _, _)
Carry(a, b, i) ==
  IF i = 1 THEN 0
  ELSE (LimbAt(a, i - 1) + LimbAt(b, i - 1) + Carry(a, b, i - 1)) \div LimbBase

NatAdd(a0, b0) ==
  With(a0, LAMBDA a : With(b0, LAMBDA b :
    Trim([i \in 1 .. (Max({Len(a), Len(b)}) + 1) |->
            (LimbAt(a, i) + LimbAt(b, i) + Carry(a, b, i)) % LimbBase])))

\* the borrow from digit i of a - b
RECURSIVE Borrow(_, _, _)
Borrow(a, b, i) ==
  IF i = 1 THEN 0
  ELSE IF a[i - 1] - LimbAt(b, i - 1) - Borrow(a, b, i - 1) < 0 THEN 1
  ELSE 0

\* a - b for a >= b
NatSub(a0, b0) ==
  With(a0, LAMBDA a : With(b0, LAMBDA b :
    Trim([i \in 1 .. Len(a) |->
            (a[i] - LimbAt(b, i) - Borrow(a, b, i) + LimbBase) % LimbBase])))

\* a < b
NatLess(a0, b0) ==
  With(a0, LAMBDA a : With(b0, LAMBDA b :
    IF Len(a) # Len(b)
    THEN Len(a) < Len(b)
    ELSE \E i \in 1 .. Len(a) :
           a[i] < b[i] /\ \A j \in (i + 1) .. Len(a) : a[j] = b[j]))

\* the carry into digit i of a * c
RECURSIVE TimesCarry(_, _, _)
TimesCarry(a, c, i) ==
  IF i = 1 THEN 0
  ELSE (a[i - 1] * c + TimesCarry(a, c, i - 1)) \div LimbBase

\* a * c for a digit c
NatTimesLimb(a0, c) ==
  With(a0, LAMBDA a :
    Trim([i \in 1 .. (Len(a) + 1) |->
            (LimbAt(a, i) * c + TimesCarry(a, c, i)) % LimbBase]))

\* a * LimbBase^j
ShiftLimbs(a0, j) ==
  With(a0, LAMBDA a : IF a = <<>> THEN <<>> ELSE [i \in 1 .. j |-> 0] \o a)

\* a * 2^k
ShiftLeft(a, k) ==
  ShiftLimbs(NatTimesLimb(a, 2 ^ (k % LimbBits)), k \div LimbBits)

\* a times the digits of b from index i on
RECURSIVE MulLoop(_, _, _)
MulLoop(a, b, i) ==
  IF i > Len(b)
  THEN <<>>
  ELSE NatAdd(NatTimesLimb(a, b[i]), ShiftLimbs(MulLoop(a, b, i + 1), 1))

NatMul(a0, b0) ==
  With(a0, LAMBDA a : With(b0, LAMBDA b : MulLoop(a, b, 1)))

\* long division by an integer d, 0 < d <= LimbBase: the remainder of the
\* digits of a above index i
RECURSIVE RemAbove(_, _, _)
RemAbove(a, d, i) ==
  IF i >= Len(a) THEN 0
  ELSE (RemAbove(a, d, i + 1) * LimbBase + a[i + 1]) % d

\* a \div d and a % d
NatDivInt(a0, d) ==
  With(a0, LAMBDA a :
    Trim([i \in 1 .. Len(a) |-> (RemAbove(a, d, i) * LimbBase + a[i]) \div d]))

NatModInt(a0, d) == With(a0, LAMBDA a : RemAbove(a, d, 0))

\* a \div 2^k
ShiftRight(a, k) ==
  With(NatDivInt(a, 2 ^ (k % LimbBits)), LAMBDA q :
    SubSeq(q, k \div LimbBits + 1, Len(q)))

\* a % 2^k is not zero
LosesBits(a0, k) ==
  With(a0, LAMBDA a :
    \/ \E i \in 1 .. (k \div LimbBits) : LimbAt(a, i) # 0
    \/ LimbAt(a, k \div LimbBits + 1) % (2 ^ (k % LimbBits)) # 0)

\* bit k of a, the lowest being bit 1
BitAt(a, k) ==
  (LimbAt(a, (k - 1) \div LimbBits + 1) \div (2 ^ ((k - 1) % LimbBits))) % 2

\* the number of bits of a
BitLength(a0) ==
  With(a0, LAMBDA a :
    IF a = <<>> THEN 0
    ELSE LimbBits * (Len(a) - 1)
           + (CHOOSE k \in 1 .. LimbBits :
                2 ^ (k - 1) <= a[Len(a)] /\ a[Len(a)] < 2 ^ k))

\* A double is s * m * 2^e, with s the sign (0 for zero) and m of
\* MantissaBits bits.  The exponents met here are far from those of the
\* subnormal numbers and of infinity.
MantissaBits == 53
DZero == [s |-> 0, m |-> <<>>, e |-> 0]

\* s * x * 2^e for an x of more than MantissaBits bits, k of them dropped
RoundDropping(s, x, e, k) ==
  With(ShiftRight(x, k), LAMBDA q :
    With(IF BitAt(x, k) = 1 /\ (LosesBits(x, k - 1) \/ BitAt(q, 1) = 1)
         THEN NatAdd(q, <<1>>) ELSE q,
         LAMBDA q2 :
           IF BitLength(q2) > MantissaBits
           THEN [s |-> s, m |-> ShiftRight(q2, 1), e |-> e + k + 1]
           ELSE [s |-> s, m |-> q2, e |-> e + k]))

\* s * x * 2^e rounded to the nearest double, a tie to the even mantissa
RoundToDouble(s, x0, e) ==
  With(x0, LAMBDA x : With(BitLength(x), LAMBDA len :
    IF x = <<>> THEN DZero
    ELSE IF len <= MantissaBits
    THEN [s |-> s, m |-> ShiftLeft(x, MantissaBits - len),
          e |-> e - (MantissaBits - len)]
    ELSE RoundDropping(s, x, e, len - MantissaBits)))

\* the double nearest to a rational n/d, d <= LimbBase: what the literal
\* (-0.3, 0.145) denotes.  The quotient is taken to QuotientBits binary
\* places and one more bit records a remainder.
QuotientBits == 70
Fl(a0) ==
  With(a0, LAMBDA a :
    IF a.n = 0 THEN DZero
    ELSE With(ShiftLeft(NatOfInt(Abs(a.n)), QuotientBits), LAMBDA x :
           RoundToDouble(IF a.n < 0 THEN -1 ELSE 1,
                         NatAdd(ShiftLeft(NatDivInt(x, a.d), 1),
                                IF NatModInt(x, a.d) = 0 THEN <<>> ELSE <<1>>),
                         -(QuotientBits + 1))))

\* the doubles a and b of different signs added: xa and xb are their
\* mantissas at the exponent e
DAddOpposite(a, b, xa, xb, e) ==
  IF xa = xb THEN DZero
  ELSE IF NatLess(xa, xb) THEN RoundToDouble(b.s, NatSub(xb, xa), e)
  ELSE RoundToDouble(a.s, NatSub(xa, xb), e)

\* a + b
DAdd(a0, b0) ==
  With(a0, LAMBDA a : With(b0, LAMBDA b :
    IF a.s = 0 THEN b
    ELSE IF b.s = 0 THEN a
    ELSE With(IF a.e < b.e THEN a.e ELSE b.e, LAMBDA e :
      With(ShiftLeft(a.m, a.e - e), LAMBDA xa :
        With(ShiftLeft(b.m, b.e - e), LAMBDA xb :
          IF a.s = b.s THEN RoundToDouble(a.s, NatAdd(xa, xb), e)
          ELSE DAddOpposite(a, b, xa, xb, e))))))

\* a - b
DSub(a, b0) == With(b0, LAMBDA b : DAdd(a, [b EXCEPT !.s = -b.s]))

\* a * b
DMul(a0, b0) ==
  With(a0, LAMBDA a : With(b0, LAMBDA b :
    IF a.s = 0 \/ b.s = 0 THEN DZero
    ELSE RoundToDouble(a.s * b.s, NatMul(a.m, b.m), a.e + b.e)))

\* a / b < c, for b # 0 and c > 0: the quotient rounds to a double below c
\* when it lies below the middle of c and the double before it, or on the
\* middle with the mantissa of c odd
DQuotientLess(a0, b0, c0) ==
  With(a0, LAMBDA a : With(b0, LAMBDA b : With(c0, LAMBDA c :
    IF a.s = 0 \/ a.s # b.s THEN TRUE
    ELSE With(IF a.e < b.e + c.e - 1 THEN a.e ELSE b.e + c.e - 1, LAMBDA e :
      With(ShiftLeft(a.m, a.e - e), LAMBDA l :
        With(ShiftLeft(NatMul(NatSub(ShiftLeft(c.m, 1), <<1>>), b.m),
                       b.e + c.e - 1 - e),
             LAMBDA r : NatLess(l, r) \/ (l = r /\ BitAt(c.m, 1) = 1)))))))

\* the literals 0.1 (line 420) and 0.145 (line 423)
Tenth == Fl(Rat(1, 10))
Threshold == Fl(Rat(145, 1000))

\* line 420: spacer = 0.1 * window, as an exact value
Spacer(window) == RatTimes(window, 1, 10)

\* line 421: max + spacer, as an exact value
Ymax(mx, mn) == RatAdd(mx, Spacer(RatSub(mx, mn)))

\* line 423 on the exact values: "zero" when ylim[1] is zero, and else
\* whether spacer / ylim[1] < 0.145
ExactTest(mx, mn) ==
  IF Ymax(mx, mn).n = 0 THEN "zero"
  ELSE IF RatNeg(Ymax(mx, mn)) THEN "below"
  ELSE IF RatLess(RatTimes(Spacer(RatSub(mx, mn)), 1000, 1),
                  RatTimes(Ymax(mx, mn), 145, 1))
  THEN "below"
  ELSE "not below"

\* lines 419-423 on the doubles
DoubleTest(mx, mn) ==
  With(DMul(Tenth, DSub(Fl(mx), Fl(mn))), LAMBDA spacer :
    With(DAdd(Fl(mx), spacer), LAMBDA ymax :
      IF ymax.s = 0 THEN "zero"
      ELSE IF DQuotientLess(spacer, ymax, Threshold) THEN "below"
      ELSE "not below"))

\* the exact ylim[1] is zero, or the exact ratio is 0.145
OnTheEdge(mx, mn) ==
  \/ Ymax(mx, mn).n = 0
  \/ RatTimes(Spacer(RatSub(mx, mn)), 1000, 1) = RatTimes(Ymax(mx, mn), 145, 1)

\* line 423 as the code takes it, on the doubles.  Off the edge the
\* doubles decide as the exact values do: for range values up to 1000 in
\* size with denominators up to 1000 the rounding moves ylim[1] and the
\* ratio by less than their distance from zero and from 0.145.
RatioTest(mx, mn) ==
  IF OnTheEdge(mx, mn) THEN DoubleTest(mx, mn) ELSE ExactTest(mx, mn)

\* lines 419-425 for a maximum mx and a minimum mn; the limits returned are
\* written as exact values.
\* np_floats: the values are numpy.float64 (a division by zero gives nan or
\* inf and a RuntimeWarning) and not Python floats (it raises).
YlimOfExtremes(mx, mn, ymin, auto_labels, np_floats) ==
  IF ~auto_labels
  THEN [raised |-> "none", ylim |-> <<ymin, Ymax(mx, mn)>>]
  ELSE With(RatioTest(mx, mn), LAMBDA test :
         IF test = "zero" /\ ~np_floats
         THEN [raised |-> "ZeroDivisionError"]
         ELSE IF test = "below"
         THEN [raised |-> "none", ylim |-> <<ymin, RatTimes(mx, 117, 100)>>]
         ELSE [raised |-> "none", ylim |-> <<ymin, Ymax(mx, mn)>>])

\* the same with max(y_range_vals, default=0) and min(y_range_vals,
\* default=0): an empty collection gives a y-axis and no exception
YlimWithDefault(y_range_vals, ymin, auto_labels, np_floats) ==
  IF y_range_vals = <<>>
  THEN YlimOfExtremes(RatOfInt(0), RatOfInt(0), ymin, auto_labels, np_floats)
  ELSE YlimOfExtremes(PyMax(y_range_vals), PyMin(y_range_vals), ymin,
                      auto_labels, np_floats)

\* lines 418-426
_get_ylim_from_y_range_vals(y_range_vals, ymin, auto_labels, np_floats) ==
  IF y_range_vals = <<>>
  THEN [raised |-> "ValueError"]
  ELSE With(PyMax(y_range_vals), LAMBDA mx :
         With(PyMin(y_range_vals), LAMBDA mn :
           YlimOfExtremes(mx, mn, ymin, auto_labels, np_floats)))

YlimFrame(y_range_vals, ymin, auto_labels, np_floats) ==
  [pc |-> "call", y_range_vals |-> y_range_vals, ymin |-> ymin,
   auto_labels |-> auto_labels, np_floats |-> np_floats]

\* the call returns
YlimReturn ==
  /\ yl.pc = "call"
  /\ LET r == _get_ylim_from_y_range_vals(yl.y_range_vals, yl.ymin,
                                          yl.auto_labels, yl.np_floats)
     IN  /\ r.raised = "none"
         /\ yl' = [yl EXCEPT !.pc = "returned"] @@ [ylim |-> r.ylim]
  /\ UNCHANGED <<fel, lg, fep, gps>>

\* the call raises
YlimRaise ==
  /\ yl.pc = "call"
  /\ LET r == _get_ylim_from_y_range_vals(yl.y_range_vals, yl.ymin,
                                          yl.auto_labels, yl.np_floats)
     IN  /\ r.raised # "none"
         /\ yl' = [yl EXCEPT !.pc = "raised"] @@ [raised |-> r.raised]
  /\ UNCHANGED <<fel, lg, fep, gps>>

InitYlim ==
  /\ yl \in {YlimFrame(v, m, a, n) :
               v \in RangeValLists, m \in Floors, a \in BOOLEAN, n \in BOOLEAN}
  /\ fel = Idle
  /\ lg = Idle
  /\ fep = Idle
  /\ gps = Idle

NextYlim == YlimReturn \/ YlimRaise

SpecYlim == InitYlim /\ [][NextYlim]_vars

\* C4: for every non-empty collection of range values the call returns
\* (ymin, ymax) with ymin the argument and ymax = max + 0.1 * (max - min), or
\* max * 1.17 when auto_labels is on and spacer / ymax < 0.145; [0, 2]
\* without auto-labels gives (0, 2.2), [0, 1] with auto-labels (0, 1.17);
\* no non-empty input raises, a base ymax of zero included.
C4_YlimDefined ==
  (yl.pc \in {"returned", "raised"} /\ yl.y_range_vals # <<>>) =>
    LET mx == CHOOSE v \in Range(yl.y_range_vals) :
                \A w \in Range(yl.y_range_vals) : ~RatLess(v, w)
        mn == CHOOSE v \in Range(yl.y_range_vals) :
                \A w \in Range(yl.y_range_vals) : ~RatLess(w, v)
        tenth == RatTimes(RatSub(mx, mn), 1, 10)
        base == RatAdd(mx, tenth)
        widen == /\ yl.auto_labels
                 /\ \/ base.n < 0
                    \/ base.n > 0 /\ 1000 * tenth.n * base.d < 145 * base.n * tenth.d
    IN  /\ yl.pc = "returned"
        /\ yl.ylim[1] = yl.ymin
        /\ yl.ylim[2] = IF widen THEN RatTimes(mx, 117, 100) ELSE base
        /\ (yl.y_range_vals = AsRats(<<0, 2>>) /\ ~yl.auto_labels
              /\ yl.ymin = RatOfInt(0))
             => yl.ylim = <<RatOfInt(0), Rat(22, 10)>>
        /\ (yl.y_range_vals = AsRats(<<0, 1>>) /\ yl.auto_labels
              /\ yl.ymin = RatOfInt(0))
             => yl.ylim = <<RatOfInt(0), Rat(117, 100)>>

\* what holds of C4: the same, for every call that does not divide by zero;
\* a call divides by zero when max + 0.1 * (max - min) is zero as computed
\* in doubles
C4_YlimWhereDefined ==
  (yl.pc \in {"returned", "raised"} /\ yl.y_range_vals # <<>>) =>
    \/ C4_YlimDefined
    \/ /\ yl.pc = "raised"
       /\ yl.raised = "ZeroDivisionError"
       /\ yl.auto_labels /\ ~yl.np_floats
       /\ RatTimes(PyMax(yl.y_range_vals), 11, 1) = PyMin(yl.y_range_vals)
       /\ DoubleTest(PyMax(yl.y_range_vals), PyMin(yl.y_range_vals)) = "zero"

\* C12 as stated: called with an empty collection of range values the call
\* fails silently, it raises no exception.
C12_EmptySilent ==
  (yl.pc \in {"returned", "raised"} /\ yl.y_range_vals = <<>>) =>
    yl.pc = "returned"

\* C12 as amended: called with an empty collection of range values the call
\* raises ValueError (max() of an empty sequence) and returns no limits,
\* whatever ymin and auto_labels are.
C12_EmptyRaises ==
  (yl.pc \in {"returned", "raised"} /\ yl.y_range_vals = <<>>) =>
    (yl.pc = "raised" /\ yl.raised = "ValueError")

\* a call with no range values and auto-labels on has ended
C12_Witness ==
  /\ yl.pc = "raised"
  /\ yl.y_range_vals = <<>>
  /\ yl.auto_labels
  /\ yl.ymin = Rat(-7, 2)

(***************************************************************************)
(* _get_legends_txt                                                        *)
(***************************************************************************)
\* bound of the inputs
MaxNames == 3

\* Strings are sequences of characters.  A defect name carries its text and
\* what the name parser makes of it: the symbol (V for a vacancy), the
\* subscript, the site number and the charge.
VacancyName(site, chg) ==
  [text |-> <<"v", "a", "c", "_">> \o site \o <<"_", "C", "d", "_">> \o chg,
   parses |-> TRUE, site |-> site, sym |-> <<"V">>, elt |-> <<"C", "d">>,
   chg |-> chg]

\* vac_1_Cd_0, vac_2_Cd_0, vac_1_Cd_-1: one defect on two sites and in two
\* charge states; v_Cd_0: a name without site number; foo: not a defect name
NameUniverse ==
  { VacancyName(<<"1">>, <<"0">>),
    VacancyName(<<"2">>, <<"0">>),
    VacancyName(<<"1">>, <<"-", "1">>),
    [text |-> <<"v", "_", "C", "d", "_", "0">>,
     parses |-> TRUE, site |-> <<>>, sym |-> <<"V">>, elt |-> <<"C", "d">>,
     chg |-> <<"0">>],
    [text |-> <<"f", "o", "o">>, parses |-> FALSE] }

NameLists == UNION {[1 .. n -> NameUniverse] : n \in 0 .. MaxNames}

\* the values all_entries takes; Python compares them with ==, is and bool()
PyFalse == "False"
PyTrue == "True"
PyTruthy(v) == v \notin {"False", "0", "None", ""}
\* a == b for these values: 0 == False and 1 == True
PyEq(a, b) ==
  \/ a = b
  \/ {a, b} = {"0", "False"}
  \/ {a, b} = {"1", "True"}
\* a is b: identity
PyIs(a, b) == a = b

\* shakenbreak's _format_defect_name: "$V_{Cd}^{0}$", with the site number
\* "$V_{Cd_{1}}^{0}$"; a name it cannot read raises
_format_defect_name(defect_species, include_site_num_in_name) ==
  IF ~defect_species.parses
  THEN [raised |-> "ValueError"]
  ELSE [raised |-> "none",
        name |-> <<"$">> \o defect_species.sym \o <<"_", "{">> \o defect_species.elt
                   \o (IF include_site_num_in_name /\ defect_species.site # <<>>
                       THEN <<"_", "{">> \o defect_species.site \o <<"}">>
                       ELSE <<>>)
                   \o <<"}", "^", "{">> \o defect_species.chg \o <<"}", "$">>]

\* str.rsplit(sep, 1)[0]
RsplitFirst(str, sep) ==
  LET at == {i \in DOMAIN str : str[i] = sep}
  IN  IF at = {} THEN str ELSE SubSeq(str, 1, Max(at) - 1)

\* lines 299 and 311: f"{defect_name.rsplit('^', 1)[0]}$"
ExcludeCharge(defect_name) == Append(RsplitFirst(defect_name, "^"), "$")

\* str[:-3] and str[-3:]
AllButLast3(str) == IF Len(str) <= 3 THEN <<>> ELSE SubSeq(str, 1, Len(str) - 3)
Last3(str) == IF Len(str) <= 3 THEN str ELSE SubSeq(str, Len(str) - 2, Len(str))

Alphabet ==
  <<"a", "b", "c", "d", "e", "f", "g", "h", "i", "j", "k", "l", "m",
    "n", "o", "p", "q", "r", "s", "t", "u", "v", "w", "x", "y", "z">>

\* the characters of code points 97 .. 126: the lowercase letters and the
\* four signs after "z"
FromLetterA == Alphabet \o <<"{", "|", "}", "~">>

\* chr(96 + i): the character of code point 96 + i; a code point outside
\* 97 .. 126 (the backquote, 96, among them) is written by its number
Chr96(i) ==
  IF i \in 1 .. Len(FromLetterA) THEN FromLetterA[i]
  ELSE "chr(" \o ToString(96 + i) \o ")"

RECURSIVE SuffixLoop(_, _, _)
\* lines 315-317: while defect_name in legends_txt: i += 1; insert chr(96 + i)
SuffixLoop(defect_name, i, legends_txt) ==
  IF defect_name \notin Range(legends_txt) THEN defect_name
  ELSE SuffixLoop(AllButLast3(defect_name) \o <<Chr96(i + 1)>> \o Last3(defect_name),
                  i + 1, legends_txt)

\* lines 293-302: the first attempt, falling back to the name itself
FirstAttempt(defect_entry_name, all_entries) ==
  LET r == _format_defect_name(defect_entry_name, FALSE)
  IN  IF r.raised # "none" THEN defect_entry_name.text
      ELSE IF ~PyTruthy(all_entries) THEN ExcludeCharge(r.name)
      ELSE r.name

\* lines 306-311: the second attempt, with the site number; not in a try block
SecondAttempt(defect_entry_name, all_entries) ==
  LET r == _format_defect_name(defect_entry_name, TRUE)
  IN  IF r.raised # "none" THEN r
      ELSE [raised |-> "none",
            name |-> IF ~PyTruthy(all_entries) THEN ExcludeCharge(r.name)
                     ELSE r.name]

\* lines 292-318: one pass of the loop over for_legend
LegendIteration(legends_txt, defect_entry_name, all_entries) ==
  LET first == FirstAttempt(defect_entry_name, all_entries)
      second == IF first \in Range(legends_txt)
                THEN SecondAttempt(defect_entry_name, all_entries)
                ELSE [raised |-> "none", name |-> first]
  IN  IF second.raised # "none" THEN second
      ELSE [raised |-> "none",
            legends_txt |-> Append(legends_txt, SuffixLoop(second.name, 1, legends_txt))]

LegendFrame(for_legend, all_entries) ==
  [pc |-> "loop", for_legend |-> for_legend, all_entries |-> all_entries,
   legends_txt |-> <<>>, raised |-> "none"]

\* one name of for_legend is given its label
LegendStep ==
  /\ lg.pc = "loop"
  /\ Len(lg.legends_txt) < Len(lg.for_legend)
  /\ LET r == LegendIteration(lg.legends_txt,
                              lg.for_legend[Len(lg.legends_txt) + 1], lg.all_entries)
     IN  /\ r.raised = "none"
         /\ lg' = [lg EXCEPT !.legends_txt = r.legends_txt]
  /\ UNCHANGED <<fel, yl, fep, gps>>

\* formatting raises outside the try block: the call ends with the exception
LegendRaise ==
  /\ lg.pc = "loop"
  /\ Len(lg.legends_txt) < Len(lg.for_legend)
  /\ LET r == LegendIteration(lg.legends_txt,
                              lg.for_legend[Len(lg.legends_txt) + 1], lg.all_entries)
     IN  /\ r.raised # "none"
         /\ lg' = [lg EXCEPT !.pc = "raised", !.raised = r.raised]
  /\ UNCHANGED <<fel, yl, fep, gps>>

\* line 320
LegendReturn ==
  /\ lg.pc = "loop"
  /\ Len(lg.legends_txt) = Len(lg.for_legend)
  /\ lg' = [lg EXCEPT !.pc = "returned"]
  /\ UNCHANGED <<fel, yl, fep, gps>>

InitLegend ==
  /\ lg \in {LegendFrame(names, a) :
               names \in NameLists, a \in {"False", "True", "faded"}}
  /\ fel = Idle
  /\ yl = Idle
  /\ fep = Idle
  /\ gps = Idle

NextLegend == LegendStep \/ LegendRaise \/ LegendReturn

SpecLegend == InitLegend /\ [][NextLegend]_vars

(***************************************************************************)
(* Properties of the legend formatter                                      *)
(***************************************************************************)
LegendEnded == lg.pc \in {"returned", "raised"}

\* the label a name gets on its second attempt (for names that format)
RetryLabel(name) == SecondAttempt(name, lg.all_entries).name

\* str with one letter put in before its last three characters
WithLetter(str, letter) == AllButLast3(str) \o <<letter>> \o Last3(str)

\* the labels made of str by putting in 1, 2, ... letters, one after another
RECURSIVE Suffixed(_, _)
Suffixed(str, n) ==
  IF n = 0 THEN {}
  ELSE LET one == {WithLetter(str, Alphabet[m]) : m \in 1 .. 26}
       IN  one \cup UNION {Suffixed(t, n - 1) : t \in one}

\* position j of the input went through the suffix loop
WasSuffixed(j) ==
  /\ lg.for_legend[j].parses
  /\ FirstAttempt(lg.for_legend[j], lg.all_entries)
       \in {lg.legends_txt[i] : i \in 1 .. j - 1}
  /\ RetryLabel(lg.for_legend[j]) \in {lg.legends_txt[i] : i \in 1 .. j - 1}

\* what holds of every list the call returns: same length and order as the
\* input, labels pairwise distinct, a label is as first formatted unless that
\* formatting is already in the list
ReturnedLegendOk ==
  /\ Len(lg.legends_txt) = Len(lg.for_legend)
  /\ \A i, j \in DOMAIN lg.legends_txt :
       i # j => lg.legends_txt[i] # lg.legends_txt[j]
  /\ \A j \in DOMAIN lg.legends_txt :
       LET first == FirstAttempt(lg.for_legend[j], lg.all_entries)
       IN  /\ first \notin {lg.legends_txt[i] : i \in 1 .. j - 1}
                => lg.legends_txt[j] = first
           /\ \/ lg.legends_txt[j] = first
              \/ /\ lg.for_legend[j].parses
                 /\ lg.legends_txt[j] \in
                      {RetryLabel(lg.for_legend[j])}
                        \cup Suffixed(RetryLabel(lg.for_legend[j]), 2)
  /\ Len(lg.for_legend) = 1 =>
       lg.legends_txt = <<FirstAttempt(lg.for_legend[1], lg.all_entries)>>

\* C5: for every input list the call returns a list of the same length and
\* order, with pairwise distinct labels, in which the first occurrence of a
\* label is as first formatted; a list of one name gives exactly its
\* first-attempt formatting.
C5_LegendLabels == LegendEnded => (lg.pc = "returned" /\ ReturnedLegendOk)

\* the part of C5 that holds: of every list that is returned
C5_ReturnedLists == lg.pc = "returned" => ReturnedLegendOk

\* C6: a label that still collides after the site-index retry is made from
\* the colliding label by putting in one lowercase letter before the trailing
\* delimiter, the letters taken in the sequence a, b, c, ...: the first label
\* resolved this way gets "a", the next "b", and each differs from the label
\* it collided with by that one letter.
C6_SuffixLetters ==
  lg.pc = "returned" =>
    \A j \in DOMAIN lg.legends_txt :
      WasSuffixed(j) =>
        LET base == RetryLabel(lg.for_legend[j])
            rank == Cardinality({i \in 1 .. j : WasSuffixed(i)
                                   /\ RetryLabel(lg.for_legend[i]) = base})
        IN  lg.legends_txt[j] = WithLetter(base, Alphabet[rank])

\* what the code does instead: the first resolved label gets "b", and each
\* further one keeps the letters before it and adds the next ("bc", "bcd")
RECURSIVE CodeSuffix(_, _)
CodeSuffix(str, rank) ==
  IF rank = 0 THEN str
  ELSE WithLetter(CodeSuffix(str, rank - 1), Alphabet[rank + 1])

C6_AsCoded ==
  lg.pc = "returned" =>
    \A j \in DOMAIN lg.legends_txt :
      WasSuffixed(j) =>
        LET base == RetryLabel(lg.for_legend[j])
            rank == Cardinality({i \in 1 .. j : WasSuffixed(i)
                                   /\ RetryLabel(lg.for_legend[i]) = base})
        IN  lg.legends_txt[j] = CodeSuffix(base, rank)

\* C7: a formatting failure is never propagated: for every input list the
\* call returns, and a name that fails formatting is shown by its raw text.
C7_FailureNotPropagated ==
  LegendEnded =>
    /\ lg.pc = "returned"
    /\ \A j \in DOMAIN lg.for_legend :
         ~lg.for_legend[j].parses => lg.legends_txt[j] = lg.for_legend[j].text

\* what holds of C7: the call raises exactly when a name that fails
\* formatting meets its own raw text among the labels made so far
C7_AsCoded ==
  /\ lg.pc = "raised" =>
       LET name == lg.for_legend[Len(lg.legends_txt) + 1]
       IN  ~name.parses /\ name.text \in Range(lg.legends_txt)
  /\ lg.pc = "returned" =>
       \A j \in DOMAIN lg.for_legend :
         ~lg.for_legend[j].parses => lg.legends_txt[j] = lg.for_legend[j].text

(***************************************************************************)
(* _get_plot_setup                                                         *)
(***************************************************************************)
\* bound of the inputs: the largest number of lines handed over
MaxLines == 21

\* the colormaps matplotlib registers, by their number of colours (cmap.N):
\* the qualitative ones of 8, 9, 10, 12 and 20 colours, the cyclic twilight
\* pair of 510, and the others, of 256; each also reversed, as name_r
Colormaps8 ==
  { "Accent", "Accent_r", "Dark2", "Dark2_r", "Pastel2", "Pastel2_r",
    "Set2", "Set2_r" }

Colormaps9 ==
  { "Pastel1", "Pastel1_r", "Set1", "Set1_r" }

Colormaps10 ==
  { "tab10", "tab10_r" }

Colormaps12 ==
  { "Paired", "Paired_r", "Set3", "Set3_r" }

Colormaps20 ==
  { "tab20", "tab20_r", "tab20b", "tab20b_r", "tab20c", "tab20c_r" }

Colormaps510 ==
  { "twilight", "twilight_r", "twilight_shifted", "twilight_shifted_r" }

Colormaps256 ==
  { "viridis", "viridis_r", "plasma", "plasma_r", "inferno", "inferno_r",
    "magma", "magma_r", "cividis", "cividis_r", "turbo", "turbo_r",
    "berlin", "berlin_r", "managua", "managua_r", "vanimo", "vanimo_r",
    "Greys", "Greys_r", "Purples", "Purples_r", "Blues", "Blues_r",
    "Greens", "Greens_r", "Oranges", "Oranges_r", "Reds", "Reds_r",
    "YlOrBr", "YlOrBr_r", "YlOrRd", "YlOrRd_r", "OrRd", "OrRd_r", "PuRd",
    "PuRd_r", "RdPu", "RdPu_r", "BuPu", "BuPu_r", "GnBu", "GnBu_r",
    "PuBu", "PuBu_r", "YlGnBu", "YlGnBu_r", "PuBuGn", "PuBuGn_r", "BuGn",
    "BuGn_r", "YlGn", "YlGn_r", "binary", "binary_r", "gist_yarg",
    "gist_yarg_r", "gist_gray", "gist_gray_r", "gray", "gray_r", "bone",
    "bone_r", "pink", "pink_r", "spring", "spring_r", "summer",
    "summer_r", "autumn", "autumn_r", "winter", "winter_r", "cool",
    "cool_r", "Wistia", "Wistia_r", "hot", "hot_r", "afmhot", "afmhot_r",
    "gist_heat", "gist_heat_r", "copper", "copper_r", "PiYG", "PiYG_r",
    "PRGn", "PRGn_r", "BrBG", "BrBG_r", "PuOr", "PuOr_r", "RdGy",
    "RdGy_r", "RdBu", "RdBu_r", "RdYlBu", "RdYlBu_r", "RdYlGn",
    "RdYlGn_r", "Spectral", "Spectral_r", "coolwarm", "coolwarm_r", "bwr",
    "bwr_r", "seismic", "seismic_r", "hsv", "hsv_r", "flag", "flag_r",
    "prism", "prism_r", "ocean", "ocean_r", "gist_earth", "gist_earth_r",
    "terrain", "terrain_r", "gist_stern", "gist_stern_r", "gnuplot",
    "gnuplot_r", "gnuplot2", "gnuplot2_r", "CMRmap", "CMRmap_r",
    "cubehelix", "cubehelix_r", "brg", "brg_r", "gist_rainbow",
    "gist_rainbow_r", "rainbow", "rainbow_r", "jet", "jet_r",
    "nipy_spectral", "nipy_spectral_r", "gist_ncar", "gist_ncar_r",
    "grey", "grey_r", "gist_grey", "gist_grey_r", "gist_yerg",
    "gist_yerg_r", "Grays", "Grays_r" }

\* line 192: the registry colormaps, name -> number of colours
colormaps ==
  [name \in Colormaps8 \cup Colormaps9 \cup Colormaps10 \cup Colormaps12
             \cup Colormaps20 \cup Colormaps510 \cup Colormaps256 |->
     IF name \in Colormaps8 THEN 8
     ELSE IF name \in Colormaps9 THEN 9
     ELSE IF name \in Colormaps10 THEN 10
     ELSE IF name \in Colormaps12 THEN 12
     ELSE IF name \in Colormaps20 THEN 20
     ELSE IF name \in Colormaps510 THEN 510
     ELSE 256]

\* cmap.N of a registered colormap
ColormapSize(colormap) == colormaps[colormap]

\* the names tried: the default, other qualitative colormaps, the two of the
\* band edges (lines 240 and 251), a reversed and a cyclic one, and "nope",
\* which is not registered
ColormapNames ==
  {"Dark2", "Set2", "Set1", "tab10", "tab20", "viridis", "Blues", "Oranges",
   "Greys_r", "twilight", "nope"}

\* int(x) of a double x > 0 below 2^31
RECURSIVE IntOfNat(_)
IntOfNat(a) == IF a = <<>> THEN 0 ELSE a[1] + LimbBase * IntOfNat(Tail(a))

DFloor(x0) ==
  With(x0, LAMBDA x :
    IF x.e >= 0 THEN IntOfNat(ShiftLeft(x.m, x.e))
    ELSE IntOfNat(ShiftRight(x.m, -x.e)))

\* int(i * (1 / (n - 1)) * size) on the doubles, the product size at size - 1
DoubleIndex(size, n, i) ==
  With(DMul(DMul(Fl(RatOfInt(i)), Fl(Rat(1, n - 1))), Fl(RatOfInt(size))),
       LAMBDA xa : IF xa = Fl(RatOfInt(size)) THEN size - 1 ELSE DFloor(xa))

PowerOfTwo(k) == \E j \in 0 .. 30 : k = 2 ^ j

\* line 193: cmap(np.linspace(0, 1, len(xy))).  The linspace of n > 1
\* values is i * (1 / (n - 1)) for i = 0 .. n - 2 and then 1; a value x is
\* looked up at index int(x * N).  The products are exact when n - 1 is a
\* power of two, and their rounding is below the distance of
\* i * N / (n - 1) from a whole number when that is none; else they are
\* taken on the doubles: 7 * (1 / 9) * 9 is below 7.
ColorIndex(size, n, i) ==
  IF i = 0 THEN 0
  ELSE IF i = n - 1 THEN size - 1
  ELSE IF (i * size) % (n - 1) = 0 /\ ~PowerOfTwo(n - 1)
  THEN DoubleIndex(size, n, i)
  ELSE (i * size) \div (n - 1)

Colors(colormap, n) ==
  [i \in 1 .. n |-> ColorIndex(ColormapSize(colormap), n, i - 1)]

\* line 194
WarnsOfColours(colormap, n) == colormap = "Dark2" /\ n >= 8

\* lines 191-210; xy is given by its number of lines
_get_plot_setup(colormap, xy) ==
  IF colormap \notin DOMAIN colormaps
  THEN [pc |-> "raised", raised |-> "KeyError", colormap |-> colormap,
        xy |-> xy, colors |-> <<>>, warned |-> FALSE]
  ELSE [pc |-> "returned", raised |-> "none", colormap |-> colormap,
        xy |-> xy, colors |-> Colors(colormap, xy),
        warned |-> WarnsOfColours(colormap, xy)]

SetupFrame(colormap, xy) == [pc |-> "called", colormap |-> colormap, xy |-> xy]

\* the call returns
SetupReturn ==
  /\ gps.pc = "called"
  /\ _get_plot_setup(gps.colormap, gps.xy).pc = "returned"
  /\ gps' = _get_plot_setup(gps.colormap, gps.xy)
  /\ UNCHANGED <<fel, yl, lg, fep>>

\* line 192: colormaps[colormap] of a name that is not registered
SetupRaise ==
  /\ gps.pc = "called"
  /\ _get_plot_setup(gps.colormap, gps.xy).pc = "raised"
  /\ gps' = _get_plot_setup(gps.colormap, gps.xy)
  /\ UNCHANGED <<fel, yl, lg, fep>>

InitSetup ==
  /\ \E colormap \in ColormapNames, n \in 0 .. MaxLines :
       gps = SetupFrame(colormap, n)
  /\ fel = Idle
  /\ yl = Idle
  /\ lg = Idle
  /\ fep = Idle

NextSetup == SetupReturn \/ SetupRaise

SpecSetup == InitSetup /\ [][NextSetup]_vars

\* C11: the colour warning is given exactly when the colormap has fewer
\* colours than there are lines to plot, whatever the colormap; the call
\* still returns one colour per line.
C11_ColourWarning ==
  gps.pc = "returned" =>
    /\ gps.warned <=> ColormapSize(gps.colormap) < gps.xy
    /\ Len(gps.colors) = gps.xy

\* what holds of C11: the warning is given for Dark2 alone, from 8 lines on
\* (when its 8 colours are still all different); one colour per line
C11_AsCoded ==
  gps.pc = "returned" =>
    /\ gps.warned <=> (gps.colormap = "Dark2" /\ gps.xy >= 8)
    /\ Len(gps.colors) = gps.xy
    /\ (gps.colormap = "Dark2" /\ gps.xy = 8) =>
         Cardinality(Range(gps.colors)) = 8

(***************************************************************************)
(* formation_energy_plot and _TLD_plot                                     *)
(***************************************************************************)
\* the one element of a singleton set
TheOne(S) == CHOOSE x \in S : TRUE

RECURSIVE EnvelopeLoop(_)
\* lines 349-413: the whole loop over the species
EnvelopeLoop(f) ==
  IF f.raised # "none" \/ f.next > Len(f.dpd.species) THEN f
  ELSE TheOne({EnvelopeLoop(g) : g \in {EnvelopeIteration(f, f.dpd.species[f.next])}})

\* lines 323-415: _get_formation_energy_lines as one call
GetFormationEnergyLines(defect_phase_diagram, dft_chempots, xlim) ==
  TheOne({ EnvelopeLoop([LinesFrame(defect_phase_diagram, dft_chempots, xlim) EXCEPT
                           !.pc = "envelopes",
                           !.all_lines_xy = acc.all_lines_xy,
                           !.all_entries_y_range_vals = acc.all_entries_y_range_vals]) :
           acc \in {AllLinesLoop(defect_phase_diagram, dft_chempots, xlim,
                      Entries(defect_phase_diagram),
                      [all_lines_xy |-> <<>>, all_entries_y_range_vals |-> <<>>])} })

RECURSIVE LegendLoop(_, _, _)
\* lines 292-318: the loop over for_legend; it ends at the first exception
LegendLoop(for_legend, all_entries, legends_txt) ==
  IF Len(legends_txt) = Len(for_legend)
  THEN [raised |-> "none", legends_txt |-> legends_txt]
  ELSE LET r == LegendIteration(legends_txt, for_legend[Len(legends_txt) + 1],
                                all_entries)
       IN  IF r.raised # "none" THEN [raised |-> r.raised]
           ELSE LegendLoop(for_legend, all_entries, r.legends_txt)

\* lines 289-320: _get_legends_txt as one call
_get_legends_txt(for_legend, all_entries) == LegendLoop(for_legend, all_entries, <<>>)

\* the diagrams plotted.  Energies at Fermi level 0: charge +1 at 1 eV and
\* charge 0 at 2 eV are degenerate at the Fermi level 1.
PlotProfile == [q \in Charges |-> IF q = 1 THEN 1 ELSE IF q = 0 THEN 2 ELSE 4]

\* A tie set is a set of charges.  Line 514 takes chargeset[0]: the diagram
\* may hold the tied charges as a list, in descending or in ascending order,
\* or as a set, which has no item 0.  The two orders give the same figure,
\* the tied charges having the same energy at the breakpoint; the
\* descending one is tried.
ChargesetKinds == {"descending", "set"}

\* The first: a species of two charge states with the transition level
\* between them, and a species of one charge state; two entries have the
\* same name.
PlotDiagram(chargesets) ==
  [band_gap |-> BandGap,
   chargesets |-> chargesets,
   species |->
     << [name |-> SpeciesNames[1],
         entries |-> EntriesOf(SpeciesNames[1], {0, 1}, PlotProfile),
         tl |-> [b \in {1} |-> {0, 1}],
         stable |-> EntriesOf(SpeciesNames[1], {0, 1}, PlotProfile),
         def_name |-> DefName(SpeciesNames[1], 1)],
        [name |-> SpeciesNames[2],
         entries |-> <<DefectEntry(SpeciesNames[2], 0, PlotProfile)>>,
         tl |-> <<>>,
         stable |-> <<DefectEntry(SpeciesNames[2], 0, PlotProfile)>>,
         def_name |-> DefName(SpeciesNames[2], 0)] >>]

\* the second: two species of one entry each, so that no two entries share
\* a name; it has no tie set
OneEntryDiagram ==
  [band_gap |-> BandGap,
   chargesets |-> "descending",
   species |->
     << [name |-> SpeciesNames[1],
         entries |-> <<DefectEntry(SpeciesNames[1], 1, PlotProfile)>>,
         tl |-> <<>>,
         stable |-> <<DefectEntry(SpeciesNames[1], 1, PlotProfile)>>,
         def_name |-> DefName(SpeciesNames[1], 1)],
        [name |-> SpeciesNames[2],
         entries |-> <<DefectEntry(SpeciesNames[2], -1, PlotProfile)>>,
         tl |-> <<>>,
         stable |-> <<DefectEntry(SpeciesNames[2], -1, PlotProfile)>>,
         def_name |-> DefName(SpeciesNames[2], -1)] >>]

PlotDiagrams == {PlotDiagram(k) : k \in ChargesetKinds} \cup {OneEntryDiagram}

\* the characters of a species name, and what the name parser reads in it
NameChars(name) ==
  IF name = SpeciesNames[1] THEN <<"v", "_", "C", "d">> ELSE <<"T", "e", "_", "i">>
NameSymbol(name) == IF name = SpeciesNames[1] THEN <<"V">> ELSE <<"T", "e">>
NameSubscript(name) == IF name = SpeciesNames[1] THEN <<"C", "d">> ELSE <<"i">>

\* str(charge), and the charge as it is written in a label ("+1", "0", "-1")
ChargeChars(q) == IF q < 0 THEN <<"-", ToString(-q)>> ELSE <<ToString(q)>>
ChargeLabel(q) ==
  IF q > 0 THEN <<"+", ToString(q)>> ELSE ChargeChars(q)

\* line 547: defect_entry.name, a name without charge, which the name
\* parser cannot read
EntryName(defect_entry) == [text |-> NameChars(defect_entry.name), parses |-> FALSE]

\* line 232: def_name.split("@")[0], "<entry name>_<charge>"
LineName(def_name) ==
  LET name == RsplitAt(def_name)[1]
      q == RsplitAt(def_name)[2]
  IN  [text |-> NameChars(name) \o <<"_">> \o ChargeChars(q),
       parses |-> TRUE, site |-> <<>>, sym |-> NameSymbol(name),
       elt |-> NameSubscript(name), chg |-> ChargeLabel(q)]

\* lines 221-234: defect_names_for_legend, in the order of xy.keys(); the
\* species are put into xy in the order of the diagram
DefectNamesForLegend(defect_phase_diagram) ==
  [i \in DOMAIN defect_phase_diagram.species |->
     LineName(defect_phase_diagram.species[i].def_name)]

\* line 547: [defect_entry.name for defect_entry in defect_phase_diagram.entries]
EntryNames(defect_phase_diagram) ==
  [i \in DOMAIN Entries(defect_phase_diagram) |->
     EntryName(Entries(defect_phase_diagram)[i])]

\* len(d) of a dict modelled as a function
DictLen(d) == Cardinality(DOMAIN d)

\* the values of all_entries tried: False, True, "faded", 0, 1, "all"
AllEntriesValues == {"False", "True", "faded", "0", "1", "all"}

\* the facets of the multi-facet chempots
FacetCd == <<"C", "d">>
FacetTe == <<"T", "e">>
FacetX == <<"X">>

\* the elements, in the order of sorted(...)
Elements == <<"Cd", "Te">>

\* {"Cd": cd, "Te": te}
ElementDict(cd, te) == Dict(<< <<"Cd", Num(cd)>>, <<"Te", Num(te)>> >>)

\* {"facets": {facet: {element: chemical potential}},
\*  "elemental_refs": {element: energy}}
FacetChempots ==
  Dict(<< <<"facets", Dict(<< <<FacetCd, ElementDict(-1, -1)>>,
                              <<FacetTe, ElementDict(-2, -3)>>,
                              <<FacetX, ElementDict(-3, 0)>> >>)>>,
          <<"elemental_refs", ElementDict(-1, -2)>> >>)

\* the same after a leading chemical potential of zero
LedFacetChempots == Dict(<< <<"Te", Num(0)>> >> \o FacetChempots.items)

\* chempots: None; {}; {element: chemical potential}, none of them, or the
\* last one, close to zero; the multi-facet structure
PlainChempots == {PyNone, Dict(<<>>), ElementDict(-2, -2), ElementDict(-4, 0)}
FacetedChempots == {FacetChempots, LedFacetChempots}
ChempotsValues == PlainChempots \cup FacetedChempots

\* elt_refs: None, the reference energy of each element, or of one only
EltRefsValues == {PyNone, ElementDict(-1, -2), Dict(<< <<"Cd", Num(-1)>> >>)}

\* facets: None, a string, or a list of strings
FacetsValues ==
  { [kind |-> "none"],
    [kind |-> "str", str |-> FacetCd],
    [kind |-> "str", str |-> FacetX],
    [kind |-> "list", list |-> <<FacetCd>>],
    [kind |-> "list", list |-> <<FacetTe, FacetCd>>],
    [kind |-> "list", list |-> <<FacetX, FacetTe, FacetCd>>] }

\* xlim: None (the default of line 35), or a window given by the caller
NoXlim == <<>>
XlimValues == {NoXlim, Xlim(-1, BandGap + 1)}

\* for facet in facets: a string yields its characters, a list its items
Iterate(facets) ==
  IF facets.kind = "str" THEN [i \in DOMAIN facets.str |-> <<facets.str[i]>>]
  ELSE facets.list

\* line 113: all_entries not in [False, True, "faded"]
NotInOptions(all_entries) ==
  ~\E v \in {PyFalse, PyTrue, "faded"} : PyEq(all_entries, v)

\* np.isclose(chempot, 0, atol=0.1) on a whole number
IsCloseToZero(chempot) == chempot = 0

RECURSIVE AnyCloseToZero(_)
\* line 120: any(np.isclose(chempot, 0, atol=0.1) for chempot in
\* chempots.values()): the values are tried in the order of the dict up to
\* the first one close to zero; np.isclose of a dict raises TypeError
AnyCloseToZero(values) ==
  IF values = <<>> THEN "False"
  ELSE IF Head(values).kind # "num" THEN "TypeError"
  ELSE IF IsCloseToZero(Head(values).num) THEN "True"
  ELSE AnyCloseToZero(Tail(values))

\* lines 116-121: the condition of the warning
FormalChempots(chempots, facets, elt_refs) ==
  IF Truthy(chempots) /\ facets.kind = "none" /\ elt_refs.kind = "None"
  THEN AnyCloseToZero(ValuesOf(chempots))
  ELSE "False"

\* line 464: _chempot_warning (lines 182-188): dft_chempots is None
_chempot_warning(dft_chempots) ==
  IF dft_chempots.kind = "None" THEN << <<"no chempots">> >> ELSE <<>>

\* lines 406-413: the warnings of the line builder, one per species named
BelowZeroWarnings(warned) == [i \in DOMAIN warned |-> <<"below zero", warned[i]>>]

\* lines 194-199: the warning of the plot setup
ColourWarnings(setup) == IF setup.warned THEN << <<"colours">> >> ELSE <<>>

\* line 514: chargeset[0]
FirstOfChargeset(chargesets, chargeset) ==
  IF chargesets = "descending" THEN Max(chargeset) ELSE Min(chargeset)

\* lines 516-520 and 534: the label of a transition level and the side of
\* the point it is put on
TransitionLabel(chargeset) ==
  [text |-> <<"$", "\\", "e", "p", "s", "i", "l", "o", "n", "$", "(">>
              \o ChargeLabel(Max(chargeset)) \o <<"/">>
              \o ChargeLabel(Min(chargeset)) \o <<")">>,
   ha |-> IF Max(chargeset) > 0 THEN "right" ELSE "left"]

RECURSIVE TransitionPoints(_, _, _, _, _)
\* lines 505-520: the loop over the transition levels of one species, in the
\* order of the map (ascending); acc = [x_trans, y_trans, tl_labels, raised].
\* chargeset[0] is taken for each stable entry, and y_trans gets the energy
\* of every stable entry of that charge.
TransitionPoints(chargesets, sp, dft_chempots, todo, acc) ==
  IF todo = <<>> THEN acc
  ELSE IF sp.stable # <<>> /\ chargesets = "set"
  THEN [acc EXCEPT !.raised = "TypeError"]
  ELSE
    TransitionPoints(chargesets, sp, dft_chempots, Tail(todo),
      [x_trans |-> Append(acc.x_trans, Head(todo)),
       y_trans |->
         acc.y_trans \o
           [i \in DOMAIN SelectSeq(sp.stable, LAMBDA e :
                     e.charge_state = FirstOfChargeset(chargesets, sp.tl[Head(todo)])) |->
              _formation_energy(
                SelectSeq(sp.stable, LAMBDA e :
                  e.charge_state = FirstOfChargeset(chargesets, sp.tl[Head(todo)]))[i],
                dft_chempots, Head(todo))],
       tl_labels |-> Append(acc.tl_labels, TransitionLabel(sp.tl[Head(todo)])),
       raised |-> "none"])

RECURSIVE TransitionLevels(_, _, _, _, _, _)
\* lines 501-543: the markers of the transition levels, species by species
\* (cnt counts from 1).  A species with transition levels is drawn in
\* colors[cnt] (IndexError when there are fewer colours); ax.plot raises
\* ValueError when x_trans and y_trans differ in length.
TransitionLevels(defect_phase_diagram, dft_chempots, colors, auto_labels, cnt, markers) ==
  IF cnt > Len(defect_phase_diagram.species)
  THEN [raised |-> "none", markers |-> markers]
  ELSE
    LET sp == defect_phase_diagram.species[cnt]
        pts == TransitionPoints(defect_phase_diagram.chargesets, sp, dft_chempots,
                                SortedSeq(DOMAIN sp.tl),
                                [x_trans |-> <<>>, y_trans |-> <<>>,
                                 tl_labels |-> <<>>, raised |-> "none"])
    IN  IF pts.raised # "none" THEN [raised |-> pts.raised]
        ELSE IF pts.x_trans = <<>>
        THEN TransitionLevels(defect_phase_diagram, dft_chempots, colors,
                              auto_labels, cnt + 1, markers)
        ELSE IF cnt > Len(colors) THEN [raised |-> "IndexError"]
        ELSE IF Len(pts.x_trans) # Len(pts.y_trans) THEN [raised |-> "ValueError"]
        ELSE TransitionLevels(defect_phase_diagram, dft_chempots, colors,
                              auto_labels, cnt + 1,
                              Append(markers,
                                [x |-> pts.x_trans, y |-> pts.y_trans,
                                 color |-> colors[cnt],
                                 labels |-> IF auto_labels THEN pts.tl_labels
                                            ELSE <<>>]))

RECURSIVE FormalValues(_, _, _)
\* lines 580-581: {elt: energy - elt_refs[elt] for elt, energy in
\* dft_chempots.items()}; done = the items so far
FormalValues(todo, elt_refs, done) ==
  IF todo = <<>> THEN [raised |-> "none", chempots |-> Dict(done)]
  ELSE IF ~HasKey(elt_refs, Head(todo)[1]) THEN [raised |-> "KeyError"]
  ELSE IF Head(todo)[2].kind # "num" \/ ValueOf(elt_refs, Head(todo)[1]).kind # "num"
  THEN [raised |-> "TypeError"]
  ELSE FormalValues(Tail(todo), elt_refs,
         Append(done, <<Head(todo)[1],
                        Num(Head(todo)[2].num
                              - ValueOf(elt_refs, Head(todo)[1]).num)>>))

\* sorted(dft_chempots.keys())
SortedKeys(d) == SelectSeq(Elements, LAMBDA elt : HasKey(d, elt))

\* lines 574-603: the table of the chemical potentials, one column per
\* element in sorted order; without chemical potentials the list of labels
\* is empty and labels[0] at line 583 raises IndexError; formatting a value
\* that is no number raises TypeError (line 587)
_plot_chemical_potential_table(dft_chempots, elt_refs) ==
  LET shown == IF elt_refs.kind # "None"
               THEN FormalValues(dft_chempots.items, elt_refs, <<>>)
               ELSE [raised |-> "none", chempots |-> dft_chempots]
  IN  IF shown.raised # "none" THEN [raised |-> shown.raised]
      ELSE IF shown.chempots.items = <<>> THEN [raised |-> "IndexError"]
      ELSE IF \E i \in DOMAIN shown.chempots.items :
                shown.chempots.items[i][2].kind # "num"
      THEN [raised |-> "TypeError"]
      ELSE [raised |-> "none",
            tab |-> [elements |-> SortedKeys(shown.chempots),
                     values |-> [i \in DOMAIN SortedKeys(shown.chempots) |->
                                   ValueOf(shown.chempots,
                                           SortedKeys(shown.chempots)[i]).num],
                     units |-> IF elt_refs.kind # "None"
                               THEN "(wrt Elemental refs)"
                               ELSE "(from calculations)"]]

\* lines 566-567: the table is drawn when it is asked for and there are
\* chemical potentials
TableOf(chempot_table, dft_chempots, elt_refs) ==
  IF chempot_table /\ Truthy(dft_chempots)
  THEN _plot_chemical_potential_table(dft_chempots, elt_refs)
  ELSE [raised |-> "none", tab |-> <<>>]

\* lines 468-571: what _TLD_plot does once the lines are there: the steps in
\* the order of the code, each ending the call when it raises; the warnings
\* given up to then stay given
Canvas(defect_phase_diagram, lines, dft_chempots, elt_refs, chempot_table, all_entries, xlim, title, colormap, auto_labels, filename) ==
  LET all == PyIs(all_entries, PyTrue)
      \* line 481
      shown == IF all THEN lines.all_lines_xy ELSE lines.xy
      setup == _get_plot_setup(colormap, DictLen(shown))
      \* lines 501-543
      levels == TransitionLevels(defect_phase_diagram, dft_chempots, setup.colors,
                                 auto_labels, 1, <<>>)
      \* lines 545-551
      legend == _get_legends_txt(IF all THEN EntryNames(defect_phase_diagram)
                                 ELSE DefectNamesForLegend(defect_phase_diagram),
                                 all_entries)
      \* lines 556-561; the energies are Python floats
      ylim == _get_ylim_from_y_range_vals(
                IF all THEN lines.all_entries_y_range_vals ELSE lines.y_range_vals,
                lines.ymin, auto_labels, FALSE)
      \* lines 566-567
      table == TableOf(chempot_table, dft_chempots, elt_refs)
      w1 == _chempot_warning(dft_chempots) \o BelowZeroWarnings(lines.warned)
  IN  IF lines.raised # "none" THEN [raised |-> lines.raised, warnings |-> w1]
      ELSE IF setup.raised # "none" THEN [raised |-> setup.raised, warnings |-> w1]
      ELSE IF levels.raised # "none"
      THEN [raised |-> levels.raised, warnings |-> w1 \o ColourWarnings(setup)]
      ELSE IF legend.raised # "none"
      THEN [raised |-> legend.raised, warnings |-> w1 \o ColourWarnings(setup)]
      ELSE IF ylim.raised # "none"
      THEN [raised |-> ylim.raised, warnings |-> w1 \o ColourWarnings(setup)]
      ELSE IF table.raised # "none"
      THEN [raised |-> table.raised, warnings |-> w1 \o ColourWarnings(setup)]
      ELSE
        [raised |-> "none",
         warnings |-> w1 \o ColourWarnings(setup),
         fig |->
           [\* lines 274-284: the title, set higher and larger over a table
            title |-> title,
            title_pad |-> title # <<>> /\ chempot_table,
            dft_chempots |-> dft_chempots,
            elt_refs |-> elt_refs,
            \* lines 481-489
            lines |-> shown,
            colors |-> setup.colors,
            \* lines 491-499
            faded_lines |-> IF PyEq(all_entries, "faded")
                            THEN lines.all_lines_xy ELSE <<>>,
            \* lines 501-543
            markers |-> levels.markers,
            \* lines 545-554
            legend |-> legend.legends_txt,
            legend_of |-> IF all THEN "entries" ELSE "lines",
            legend_with_charge |-> PyTruthy(all_entries),
            \* lines 556-565
            xlim |-> xlim,
            ylim |-> ylim.ylim,
            \* lines 566-567
            table |-> table.tab,
            \* lines 285-286
            saved_as |-> filename]]

\* lines 434-571
_TLD_plot(defect_phase_diagram, dft_chempots, elt_refs, chempot_table, all_entries, xlim, title, colormap, auto_labels, filename) ==
  LET window == IF xlim = NoXlim THEN DefaultXlim(defect_phase_diagram.band_gap)
                ELSE xlim
  IN  TheOne({ Canvas(defect_phase_diagram, lines, dft_chempots, elt_refs,
                      chempot_table, all_entries, window, title, colormap,
                      auto_labels, filename) :
               lines \in {GetFormationEnergyLines(defect_phase_diagram, dft_chempots,
                                                  window)} })

\* lines 26-39: the arguments of the call; ylim, fermi_level, colormap and
\* style_file are left at their defaults (None, None, "Dark2", None)
PlotFrame(defect_phase_diagram, chempots, facets, elt_refs, chempot_table, all_entries, xlim, auto_labels, filename) ==
  [pc |-> "check",
   defect_phase_diagram |-> defect_phase_diagram,
   chempots |-> chempots, facets |-> facets, elt_refs |-> elt_refs,
   chempot_table |-> chempot_table,
   all_entries |-> all_entries, filename |-> filename,
   xlim |-> xlim, auto_labels |-> auto_labels, colormap |-> "Dark2",
   todo |-> <<>>,
   warnings |-> <<>>, figures |-> <<>>,
   raised |-> "none"]

PlotRaise(exc) == fep' = [fep EXCEPT !.pc = "raised", !.raised = exc]

\* an exception of _TLD_plot ends the call; its warnings have been given
PlotRaiseIn(plot) ==
  fep' = [fep EXCEPT !.pc = "raised", !.raised = plot.raised,
                     !.warnings = @ \o plot.warnings]

\* lines 112-114
CheckOptions ==
  /\ fep.pc = "check"
  /\ IF NotInOptions(fep.all_entries)
     THEN PlotRaise("ValueError")
     ELSE fep' = [fep EXCEPT !.pc = "chempots"]
  /\ UNCHANGED <<fel, yl, lg, gps>>

\* line 134: chempots and "facets" in chempots
MultiFacet(chempots) == Truthy(chempots) /\ HasKey(chempots, "facets")

\* lines 116-137: the warning about formal chemical potentials, then the
\* choice of the facets
CheckChempots ==
  /\ fep.pc = "chempots"
  /\ IF FormalChempots(fep.chempots, fep.facets, fep.elt_refs) = "TypeError"
     THEN PlotRaise("TypeError")
     ELSE fep' =
            [fep EXCEPT
               !.pc = IF MultiFacet(fep.chempots) THEN "facets" ELSE "single",
               !.warnings =
                  IF FormalChempots(fep.chempots, fep.facets, fep.elt_refs) = "True"
                  THEN Append(@, <<"formal chempots">>) ELSE @,
               !.todo =
                  IF ~MultiFacet(fep.chempots) THEN <<>>
                  ELSE IF fep.facets.kind = "none"
                  THEN KeysOf(ValueOf(fep.chempots, "facets"))
                  ELSE Iterate(fep.facets)]
  /\ UNCHANGED <<fel, yl, lg, gps>>

\* "base_facet.ext" (lines 142-146)
FacetFilename(filename, facet) ==
  IF filename = <<>> THEN <<>>
  ELSE <<filename[1] \o <<"_">> \o facet, filename[2]>>

\* lines 138-161: one pass of the loop over the facets
PlotFacet ==
  /\ fep.pc = "facets"
  /\ fep.todo # <<>>
  /\ LET facet == Head(fep.todo)
     IN  IF ~HasKey(ValueOf(fep.chempots, "facets"), facet)
            \/ ~HasKey(fep.chempots, "elemental_refs")
         THEN PlotRaise("KeyError")
         ELSE
           \E plot \in {_TLD_plot(fep.defect_phase_diagram,
                                    ValueOf(ValueOf(fep.chempots, "facets"), facet),
                                    ValueOf(fep.chempots, "elemental_refs"),
                                    fep.chempot_table, fep.all_entries,
                                    fep.xlim, facet, fep.colormap, fep.auto_labels,
                                    FacetFilename(fep.filename, facet))} :
             IF plot.raised # "none" THEN PlotRaiseIn(plot)
             ELSE fep' = [fep EXCEPT !.todo = Tail(@),
                                     !.warnings = @ \o plot.warnings,
                                     !.figures = Append(@, plot.fig)]
  /\ UNCHANGED <<fel, yl, lg, gps>>

\* line 163: return plot
ReturnLastPlot ==
  /\ fep.pc = "facets"
  /\ fep.todo = <<>>
  /\ IF fep.figures = <<>> THEN PlotRaise("UnboundLocalError")
     ELSE fep' = [fep EXCEPT !.pc = "returned"]
                   @@ [plot |-> fep.figures[Len(fep.figures)]]
  /\ UNCHANGED <<fel, yl, lg, gps>>

\* lines 166-179
PlotSingle ==
  /\ fep.pc = "single"
  /\ \E plot \in {_TLD_plot(fep.defect_phase_diagram, fep.chempots,
                          fep.elt_refs, fep.chempot_table, fep.all_entries,
                          fep.xlim, <<>>, fep.colormap, fep.auto_labels,
                          fep.filename)} :
       IF plot.raised # "none" THEN PlotRaiseIn(plot)
       ELSE fep' = [fep EXCEPT !.pc = "returned",
                               !.warnings = @ \o plot.warnings,
                               !.figures = Append(@, plot.fig)]
                     @@ [plot |-> plot.fig]
  /\ UNCHANGED <<fel, yl, lg, gps>>

\* filename: None or "plot.png"
FilenameValues == {<<>>, <<<<"p", "l", "o", "t">>, <<"p", "n", "g">>>>}

\* the calls tried: with chempots that have no facets, every elt_refs, and
\* with or without a facet selector; with the multi-facet chempots, every
\* selector, and elt_refs given or not
PlainFacets == {[kind |-> "none"], [kind |-> "list", list |-> <<FacetCd>>]}
FacetedEltRefs == {PyNone, ElementDict(-1, -2)}

InitPlot ==
  /\ \/ \E d \in PlotDiagrams, c \in PlainChempots, f \in PlainFacets,
           r \in EltRefsValues, t \in BOOLEAN, a \in AllEntriesValues,
           x \in XlimValues, l \in BOOLEAN, n \in FilenameValues :
         fep = PlotFrame(d, c, f, r, t, a, x, l, n)
     \/ \E d \in PlotDiagrams, c \in FacetedChempots, f \in FacetsValues,
           r \in FacetedEltRefs, t \in BOOLEAN, a \in AllEntriesValues,
           x \in XlimValues, l \in BOOLEAN, n \in FilenameValues :
         fep = PlotFrame(d, c, f, r, t, a, x, l, n)
  /\ fel = Idle
  /\ yl = Idle
  /\ lg = Idle
  /\ gps = Idle

NextPlot == CheckOptions \/ CheckChempots \/ PlotFacet \/ ReturnLastPlot \/ PlotSingle

SpecPlot == InitPlot /\ [][NextPlot]_vars

(***************************************************************************)
(* Properties of the entry point                                           *)
(***************************************************************************)
PlotStarted == fep.pc # "idle"
PlotEnded == fep.pc \in {"returned", "raised"}

\* how a figure shows the entries: which lines, the grey lines of all
\* entries, whose names and whether charges are in the legend
Display(fig) ==
  [all_lines |-> fig.lines =
                   AllLinesLoop(fep.defect_phase_diagram, fig.dft_chempots, fig.xlim,
                                Entries(fep.defect_phase_diagram),
                                [all_lines_xy |-> <<>>,
                                 all_entries_y_range_vals |-> <<>>]).all_lines_xy,
   faded |-> fig.faded_lines # <<>>,
   legend_of |-> fig.legend_of,
   legend_with_charge |-> fig.legend_with_charge]

\* the three display modes, as all_entries = False, True and "faded" give them
DisplayModes ==
  { [all_lines |-> FALSE, faded |-> FALSE, legend_of |-> "lines",
     legend_with_charge |-> FALSE],
    [all_lines |-> TRUE, faded |-> FALSE, legend_of |-> "entries",
     legend_with_charge |-> TRUE],
    [all_lines |-> FALSE, faded |-> TRUE, legend_of |-> "lines",
     legend_with_charge |-> TRUE] }

\* C8: an all_entries value that is none of False, True, "faded" (a value
\* Python's == tells from all three) is rejected with an error at once, before
\* any warning, energy, figure or file; every value that is not rejected is
\* handled as exactly one of the three display modes.
C8_DisplayModeChecked ==
  PlotStarted =>
    /\ (\A v \in {"False", "True", "faded"} : ~PyEq(fep.all_entries, v)) =>
         /\ fep.pc \in {"check", "raised"}
         /\ fep.pc = "raised" => fep.raised = "ValueError"
         /\ fep.warnings = <<>>
         /\ fep.figures = <<>>
    /\ \A i \in DOMAIN fep.figures : Display(fep.figures[i]) \in DisplayModes

\* what holds of C8: the rejection, and the three modes for the three values
C8_AsCoded ==
  PlotStarted =>
    /\ (\A v \in {"False", "True", "faded"} : ~PyEq(fep.all_entries, v)) =>
         /\ fep.pc \in {"check", "raised"}
         /\ fep.pc = "raised" => fep.raised = "ValueError"
         /\ fep.warnings = <<>>
         /\ fep.figures = <<>>
    /\ fep.all_entries \in {"False", "True", "faded", "0"} =>
         \A i \in DOMAIN fep.figures : Display(fep.figures[i]) \in DisplayModes
    /\ fep.all_entries = "1" =>
         \A i \in DOMAIN fep.figures :
           Display(fep.figures[i]) =
             [all_lines |-> FALSE, faded |-> FALSE, legend_of |-> "lines",
              legend_with_charge |-> TRUE]

\* the facets the caller selects
Selection ==
  IF fep.facets.kind = "none" THEN KeysOf(ValueOf(fep.chempots, "facets"))
  ELSE IF fep.facets.kind = "str" THEN <<fep.facets.str>>
  ELSE fep.facets.list

\* the chemical potentials chempots holds for a facet
ChempotsOfFacet(facet) == ValueOf(ValueOf(fep.chempots, "facets"), facet)

FacetCall ==
  /\ PlotStarted
  /\ fep.chempots = FacetChempots
  /\ fep.all_entries \in {"False", "True", "faded"}

\* C9: with the multi-facet chempots, one figure is composed per selected
\* facet, in selection order (all facets without selector, the named facet
\* for a string, the listed ones for a list), each with that facet's chemical
\* potentials and the shared elemental references; the figure returned is the
\* last one.
C9_FigurePerFacet ==
  (FacetCall /\ PlotEnded) =>
    /\ fep.pc = "returned"
    /\ Len(fep.figures) = Len(Selection)
    /\ \A i \in DOMAIN fep.figures :
         /\ fep.figures[i].title = Selection[i]
         /\ fep.figures[i].dft_chempots = ChempotsOfFacet(Selection[i])
         /\ fep.figures[i].elt_refs = ValueOf(fep.chempots, "elemental_refs")
    /\ fep.plot = fep.figures[Len(fep.figures)]

\* two entries of the diagram have the same name
RepeatedEntryNames ==
  LET entries == Entries(fep.defect_phase_diagram)
  IN  \E i, j \in DOMAIN entries : i # j /\ entries[i].name = entries[j].name

\* a species with a transition level, whose tie set the diagram holds as a
\* set
UnsubscriptableTieSet ==
  /\ fep.defect_phase_diagram.chargesets = "set"
  /\ \E sp \in Range(fep.defect_phase_diagram.species) :
       DOMAIN sp.tl # {} /\ sp.stable # <<>>

\* what holds of C9: the same for a list, for a string of one character, and
\* without selector when elt_refs is given; a longer string is taken apart
\* into its characters (KeyError), no selector with no elt_refs raises
\* TypeError in the check of the chemical potentials, a tie set that is a
\* Python set raises TypeError at the markers of the first figure, and with
\* all_entries True the legend of a diagram with a repeated entry name raises
\* ValueError in the first figure
C9_AsCoded ==
  (FacetCall /\ PlotEnded) =>
    IF fep.facets.kind = "str" /\ Len(fep.facets.str) > 1
    THEN fep.pc = "raised" /\ fep.raised = "KeyError" /\ fep.figures = <<>>
    ELSE IF fep.facets.kind = "none" /\ fep.elt_refs = PyNone
    THEN fep.pc = "raised" /\ fep.raised = "TypeError" /\ fep.figures = <<>>
                           /\ fep.warnings = <<>>
    ELSE IF UnsubscriptableTieSet
    THEN fep.pc = "raised" /\ fep.raised = "TypeError" /\ fep.figures = <<>>
    ELSE IF fep.all_entries = "True" /\ RepeatedEntryNames
    THEN fep.pc = "raised" /\ fep.raised = "ValueError" /\ fep.figures = <<>>
    ELSE /\ C9_FigurePerFacet
         /\ \A i \in DOMAIN fep.figures :
              fep.figures[i].table =
                IF fep.chempot_table
                THEN _plot_chemical_potential_table(
                       fep.figures[i].dft_chempots, fep.figures[i].elt_refs).tab
                ELSE <<>>

====
